---- MODULE Spec2Model ----
(***************************************************************************)
(* Sentari transcript-to-empathy pipeline.                                 *)
(*                                                                         *)
(* Part I   strings, as JavaScript sees them (UTF-16 code units)           *)
(* Part II  the in-memory pipeline  (dist/pipeline.js, src/unnamed/part_002)*)
(* Part III the Supabase pipeline   (src/src/pipeline-supabase.ts and      *)
(*          services/database.ts, src/unnamed/part_003)                    *)
(* Part IV  the properties                                                 *)
(*                                                                         *)
(* A string is a TLA+ string with one character per UTF-16 code unit, so   *)
(* Len is String.prototype.length.  Code units outside ASCII are written   *)
(* with an ASCII stand-in, one stand-in per code unit:                     *)
(*     ~  U+2014 (em dash)      _  U+FE0F (variation selector)             *)
(*     (  U+D83C   {  U+D83D   [  U+D83E      (high surrogates)            *)
(*     *  U+2728   /  U+26A1   =  U+2696   +  U+2B50                       *)
(*     #  U+DDE9, so that "[#" is the puzzle piece U+1F9E9                 *)
(*     0 1 2 3 4 5  the low surrogates of the thought balloon, zzz, biceps,*)
(*                  wave, seedling and open book emoji                     *)
(*     6 7 8 9      the low surrogates of the four carry-in suffix emoji   *)
(*     the other digits, capitals and punctuation: low surrogates of the   *)
(*     emoji of the Supabase reply tables                                  *)
(***************************************************************************)
EXTENDS Integers, Sequences, FiniteSets, Bags, TLC

VARIABLES
    entries,        \* part_002:27   let entries = []
    userProfile,    \* part_002:28   let userProfile = {...}
    now,            \* the clock read by Date.now()
    results,        \* history: the results returned since the last reset
    issuedIds,      \* history: every entryId returned by this process
    awaited,        \* how many of the promises in results the caller has awaited
    user_profiles,  \* the rows of table user_profiles
    diary_entries,  \* the rows of table diary_entries, in insertion order
    deleted_entries, \* the rows deleted from diary_entries: gen_random_uuid() gives no id twice
    calls,          \* the processTranscriptWithSupabase calls and where they are
    failures,       \* storage requests that have failed so far
    auth,           \* the accounts (auth.users) and the registerUser call under way
    reply,          \* a call of generateEmpathicReply of pipeline-supabase.ts
    compared,       \* a call of cosineSimilarity
    recorder,       \* part_003:585 the VoiceRecorder and the browser objects it holds
    timers,         \* the stopRecording calls whose processAudioBlob timer is running
    callbackLog     \* history: the bag of onTranscriptReady and onError callbacks made

memVars == <<entries, userProfile, now, results, issuedIds, awaited>>
supaVars == <<user_profiles, diary_entries, deleted_entries, calls, failures, auth>>
\* the variables of calls of single functions
voiceVars == <<recorder, timers, callbackLog>>
auxVars == <<reply, compared, recorder, timers, callbackLog>>
vars == <<entries, userProfile, now, results, issuedIds, awaited,
          user_profiles, diary_entries, deleted_entries, calls, failures, auth, reply,
          compared,
          recorder, timers, callbackLog>>

(***************************************************************************)
(* Bounds                                                                  *)
(***************************************************************************)
MaxCalls == 3       \* processTranscript calls in one process lifetime
MaxClock == 1       \* milliseconds that pass
MaxSupaCalls == 2   \* processTranscriptWithSupabase calls in one run
MaxFailures == 1    \* storage requests of the pipeline calls that fail in one run
MaxEdited == 1      \* profile rows holding a picture, in one run

(***************************************************************************)
(* Part I. Strings                                                         *)
(***************************************************************************)
Min(a, b) == IF a < b THEN a ELSE b
Max(a, b) == IF a > b THEN a ELSE b

Range(s) == {s[i] : i \in 1..Len(s)}

\* s.charAt(i - 1)
At(s, i) == SubSeq(s, i, i)

\* \w of a JavaScript regular expression
WordChars ==
    {"a","b","c","d","e","f","g","h","i","j","k","l","m",
     "n","o","p","q","r","s","t","u","v","w","x","y","z",
     "A","B","C","D","E","F","G","H","I","J","K","L","M",
     "N","O","P","Q","R","S","T","U","V","W","X","Y","Z",
     "0","1","2","3","4","5","6","7","8","9","_"}

IsWordChar(c) == c \in WordChars

\* the white space String.prototype.trim removes, and \s of a regular expression
\* matches, among the characters a TLA+ string can hold: space, tab, line feed,
\* carriage return, form feed and vertical tab (U+000B, which has no escape
\* in a TLA+ string and stands in the last literal as the character itself)
WhiteSpace == {" ", "\t", "\n", "\r", "\f", ""}

LowerOf ==
    [c \in {"A","B","C","D","E","F","G","H","I","J","K","L","M",
            "N","O","P","Q","R","S","T","U","V","W","X","Y","Z"} |->
        CASE c = "A" -> "a" [] c = "B" -> "b" [] c = "C" -> "c" [] c = "D" -> "d"
          [] c = "E" -> "e" [] c = "F" -> "f" [] c = "G" -> "g" [] c = "H" -> "h"
          [] c = "I" -> "i" [] c = "J" -> "j" [] c = "K" -> "k" [] c = "L" -> "l"
          [] c = "M" -> "m" [] c = "N" -> "n" [] c = "O" -> "o" [] c = "P" -> "p"
          [] c = "Q" -> "q" [] c = "R" -> "r" [] c = "S" -> "s" [] c = "T" -> "t"
          [] c = "U" -> "u" [] c = "V" -> "v" [] c = "W" -> "w" [] c = "X" -> "x"
          [] c = "Y" -> "y" [] c = "Z" -> "z"]

\* the code units i..j of s in lower case, by halves
RECURSIVE LowerBetween(_, _, _)
LowerBetween(s, i, j) ==
    IF i > j THEN ""
    ELSE IF i = j
    THEN (IF At(s, i) \in DOMAIN LowerOf THEN LowerOf[At(s, i)] ELSE At(s, i))
    ELSE LowerBetween(s, i, (i + j) \div 2) \o LowerBetween(s, (i + j) \div 2 + 1, j)

\* String.prototype.toLowerCase
toLowerCase(s) == LowerBetween(s, 1, Len(s))

RECURSIVE FirstNonSpace(_, _)
FirstNonSpace(s, i) ==
    IF i > Len(s) \/ At(s, i) \notin WhiteSpace THEN i ELSE FirstNonSpace(s, i + 1)

RECURSIVE LastNonSpace(_, _)
LastNonSpace(s, i) ==
    IF i < 1 \/ At(s, i) \notin WhiteSpace THEN i ELSE LastNonSpace(s, i - 1)

\* String.prototype.trim
trim(s) ==
    LET b == FirstNonSpace(s, 1)
        e == LastNonSpace(s, Len(s))
    IN  IF b > e THEN "" ELSE SubSeq(s, b, e)

\* String.prototype.includes
includes(s, part) ==
    \E i \in 1..(Len(s) - Len(part) + 1) : SubSeq(s, i, i + Len(part) - 1) = part

\* the maximal runs of word characters of s: the words between two \b
WordStarts(s) ==
    {i \in 1..Len(s) : IsWordChar(At(s, i)) /\ (i = 1 \/ ~IsWordChar(At(s, i - 1)))}

\* where the run of word characters that starts at i ends
WordEnd(s, i) ==
    CHOOSE j \in i..Len(s) :
        /\ j = Len(s) \/ ~IsWordChar(At(s, j + 1))
        /\ \A k \in i..j : IsWordChar(At(s, k))

Words(s) == {SubSeq(s, i, WordEnd(s, i)) : i \in WordStarts(s)}

\* s.match(/\b(phrase)\b/) for a phrase that starts and ends with a word
\* character
matchesPhrase(s, phrase) ==
    \E i \in 1..(Len(s) - Len(phrase) + 1) :
        /\ SubSeq(s, i, i + Len(phrase) - 1) = phrase
        /\ (i = 1 \/ ~IsWordChar(At(s, i - 1)))
        /\ (i + Len(phrase) - 1 = Len(s) \/ ~IsWordChar(At(s, i + Len(phrase))))

(***************************************************************************)
(* Part II. The in-memory pipeline                                         *)
(***************************************************************************)

\* lowerText.match(/\b(k1|k2|...)\b/) for single-word alternatives, given
\* the words of lowerText
matchesAny(words, keywords) == words \cap keywords # {}

\* Step 06 PARSE_ENTRY
parseEntry(text) ==
    LET lowerText == toLowerCase(text)
        words == Words(lowerText)
        m(keywords) == matchesAny(words, keywords)
        inc(part) == includes(lowerText, part)
        one(cond, label) == IF cond THEN <<label>> ELSE <<>>
        themes0 ==
            one(m({"work","job","office","meeting","boss","colleague","project","deadline","career"}),
                "work-life balance")
            \o one(m({"family","mom","dad","parent","sibling","relative","home"}), "family")
            \o one(m({"health","exercise","doctor","medical","fitness","wellness"}), "health")
            \o one(m({"friend","social","party","relationship","dating","love"}), "relationships")
            \o one(m({"money","financial","budget","bills","salary","expenses"}), "finances")
            \o one(m({"study","learn","school","education","knowledge","skill"}), "learning")
        themes == IF Len(themes0) = 0 THEN <<"personal reflection">> ELSE themes0
        vibes0 ==
            one(m({"happy","joy","excited","cheerful","glad","pleased","delighted"}), "happy")
            \o one(m({"anxious","worried","nervous","scared","afraid","fearful"}), "anxious")
            \o one(m({"tired","exhausted","drained","weary","fatigued"}), "exhausted")
            \o one(m({"angry","mad","furious","irritated","annoyed","frustrated"}), "frustrated")
            \o one(m({"sad","depressed","down","blue","melancholy","upset"}), "sad")
            \o one(m({"calm","peaceful","relaxed","serene","tranquil"}), "calm")
            \o one(m({"motivated","driven","determined","ambitious","focused"}), "driven")
        vibes == IF Len(vibes0) = 0 THEN <<"reflective">> ELSE vibes0
        intent ==
            IF m({"need","want","hope","wish","plan"})
            THEN IF inc("rest") \/ inc("sleep") \/ inc("break")
                    THEN "Find rest and recovery"
                 ELSE IF inc("understand") \/ inc("figure") \/ inc("clarity")
                    THEN "Gain understanding and clarity"
                 ELSE IF inc("improve") \/ inc("better") \/ inc("change")
                    THEN "Make positive changes"
                 ELSE IF inc("help") \/ inc("support")
                    THEN "Seek help and support"
                 ELSE "Process thoughts and feelings"
            ELSE "Process thoughts and feelings"
        subtext ==
            IF inc("should") \/ inc("supposed to") \/ inc("have to")
                THEN "Pressure from external expectations"
            ELSE IF inc("scared") \/ inc("afraid") \/ inc("fear")
                THEN "Fear of failure or missing out"
            ELSE IF inc("but") \/ inc("however") \/ inc("though")
                THEN "Internal conflict about priorities"
            ELSE "Seeking validation and understanding"
        traits0 ==
            one(m({"organized","plan","schedule","structure"}), "organized")
            \o one(m({"help","support","care","nurture"}), "caring")
            \o one(m({"think","analyze","consider","reflect"}), "analytical")
            \o one(m({"perfectionist","detail","precise","exact"}), "perfectionist")
        traits == IF Len(traits0) = 0 THEN <<"introspective">> ELSE traits0
        buckets ==
            IF m({"goal","plan","will"}) \/ matchesPhrase(lowerText, "want to")
               \/ matchesPhrase(lowerText, "going to")
                THEN <<"Goal">>
            ELSE IF m({"hobby","fun","enjoy","passion"}) \/ matchesPhrase(lowerText, "love doing")
                THEN <<"Hobby">>
            ELSE IF m({"believe","value","important","principle","moral"})
                THEN <<"Value">>
            ELSE <<"Thought">>
    IN  [theme |-> themes, vibe |-> vibes, intent |-> intent, subtext |-> subtext,
         persona_trait |-> traits, bucket |-> buckets]

(***************************************************************************)
(* Embeddings.  createEmbedding derives 384 numbers from the MD5 digest of *)
(* the text, and the pipeline uses them only through cosineSimilarity.     *)
(* The digest is tabulated for the texts submitted: DigestOf gives each    *)
(* text an integer vector such that the cosine similarity of two vectors   *)
(* is the one of the two 384-number embeddings, to within 0.07 (for        *)
(* different texts it lies between -0.23 and 0.29; for equal texts it is   *)
(* 1).  The digests of "work 3508915" and "mom 927947",                    *)
(*     b63a39a2c2710a6ef194e9d382716276                                    *)
(*     463439a2127d64be818498d98261cd88                                    *)
(* agree or differ by 6 in most places, and sin(seed + i) nearly repeats   *)
(* after 6: the similarity of their embeddings is 0.7139, and 0.7109 for   *)
(* the vectors given here.                                                 *)
(***************************************************************************)
DigestOf ==
    "I am exhausted" :>
        <<10, 0, 0, 0, 0, 0, 0, 0, 0, 0, 0, 0, 0, 0, 0, 0, 0, 0, 0, 0, 0>> @@
    "Work makes me anxious" :>
        <<0, 10, 0, 0, 0, 0, 0, 0, 0, 0, 0, 0, 0, 0, 0, 0, 0, 0, 0, 0, 0>> @@
    "happy at work" :>
        <<1, -1, 10, 0, 0, 0, 0, 0, 0, 0, 0, 0, 0, 0, 0, 0, 0, 0, 0, 0, 0>> @@
    "Mom will help plan my job" :>
        <<0, 0, -1, 10, 0, 0, 0, 0, 0, 0, 0, 0, 0, 0, 0, 0, 0, 0, 0, 0, 0>> @@
    "" :>
        <<1, 0, 0, 1, 10, 0, 0, 0, 0, 0, 0, 0, 0, 0, 0, 0, 0, 0, 0, 0, 0>> @@
    "My friend asked my doctor about money" :>
        <<2, -1, 0, 0, 1, 10, 0, 0, 0, 0, 0, 0, 0, 0, 0, 0, 0, 0, 0, 0, 0>> @@
    "I feel I should think" :>
        <<0, 1, 0, -1, 0, 0, 10, 0, 0, 0, 0, 0, 0, 0, 0, 0, 0, 0, 0, 0, 0>> @@
    "I'm feeling really anxious about the presentation tomorrow. I keep going over it in my head but I can't seem to calm down. (Variation 1)" :>
        <<-2, 0, -1, 0, 0, 0, -1, 10, 0, 0, 0, 0, 0, 0, 0, 0, 0, 0, 0, 0, 0>> @@
    "Had such a great day with friends today. We went hiking and I felt so connected to nature and everyone around me. (Variation 1)" :>
        <<1, 1, 1, 1, 1, -1, 0, -1, 10, 0, 0, 0, 0, 0, 0, 0, 0, 0, 0, 0, 0>> @@
    "Work has been overwhelming lately. I feel like I'm drowning in tasks and deadlines, and I don't know how to prioritize. (Variation 1)" :>
        <<-2, 1, 1, -2, 0, 2, 2, 0, 0, 9, 0, 0, 0, 0, 0, 0, 0, 0, 0, 0, 0>> @@
    "My mom called today and we had a really good conversation about life and family. It made me feel grateful. (Variation 1)" :>
        <<0, 2, -2, 1, 0, -2, -1, 0, 1, 0, 9, 0, 0, 0, 0, 0, 0, 0, 0, 0, 0>> @@
    "I've been thinking about my career goals and where I want to be in five years. It's exciting but also scary. (Variation 1)" :>
        <<-1, 0, 0, -1, -1, 0, 3, 1, -1, 0, 1, 9, 0, 0, 0, 0, 0, 0, 0, 0, 0>> @@
    "Feeling grateful for the small moments today. The sunset was absolutely beautiful and it made me pause. (Variation 1)" :>
        <<-1, -1, 1, 0, 1, 2, 1, -1, -2, 1, -1, 1, 9, 0, 0, 0, 0, 0, 0, 0, 0>> @@
    "Had a fight with my partner and I'm not sure how to resolve it. Feeling frustrated and misunderstood. (Variation 1)" :>
        <<-1, 0, 1, 0, 2, 0, 0, 0, 0, 0, 2, 2, 1, 9, 0, 0, 0, 0, 0, 0, 0>> @@
    "Completed my morning workout and meditation. Starting the day feeling centered and focused. (Variation 1)" :>
        <<1, 0, 2, 2, 2, -1, 1, 1, 2, 0, 0, 0, 0, 0, 9, 0, 0, 0, 0, 0, 0>> @@
    "Been struggling with sleep lately. My mind just won't quiet down at night and I'm exhausted. (Variation 1)" :>
        <<1, 0, 0, 0, 0, 1, 1, 1, 2, 1, 1, 0, 1, 1, -1, 9, 0, 0, 0, 0, 0>> @@
    "Proud of myself for taking on that challenging project at work. Growth feels uncomfortable but good. (Variation 1)" :>
        <<-2, 0, 1, -1, 1, 2, 0, 2, 0, 1, -1, -1, 0, -1, 0, 0, 9, 0, 0, 0, 0>> @@
    "I'm feeling really anxious about the presentation tomorrow. I keep going over it in my head but I can't seem to calm down. (Variation 2)" :>
        <<0, 0, 2, 1, 2, 0, 1, 0, 1, 0, 1, -1, 1, 1, 1, 1, 1, 9, 0, 0, 0>> @@
    "Had such a great day with friends today. We went hiking and I felt so connected to nature and everyone around me. (Variation 2)" :>
        <<1, 2, 0, -1, 0, 1, 0, 1, -1, 1, -1, 1, 2, -1, -1, 0, -1, 0, 9, 0, 0>> @@
    "work 3508915" :>
        <<-7, 11, 4, 17, 7, -4, -7, 3, 12, -2, -9, -3, 18, 13, 7, 8, 13, -12, -4, 91, 0>> @@
    "mom 927947" :>
        <<-17, -4, 1, 4, 2, 10, -5, 1, 17, -2, 4, 4, 13, 15, 10, 14, 14, -10, -4, 65, 64>>

createEmbedding(text) == DigestOf[text]

RECURSIVE SumOver(_, _, _)
SumOver(a, b, i) == IF i > Len(a) THEN 0 ELSE a[i] * b[i] + SumOver(a, b, i + 1)

\* cosineSimilarity without the test for a zero magnitude: 0 / 0 is NaN,
\* the triple with a magnitude of 0
cosineSimilarityUnguarded(a, b) ==
    IF Len(a) # Len(b) THEN [dot |-> 0, magnitudeA |-> 1, magnitudeB |-> 1]
    ELSE [dot |-> SumOver(a, b, 1), magnitudeA |-> SumOver(a, a, 1),
          magnitudeB |-> SumOver(b, b, 1)]

\* A similarity is the double
\* dotProduct / (Math.sqrt(magnitudeA) * Math.sqrt(magnitudeB)), kept as the
\* three integers it is computed from; the value 0 is the triple (0, 1, 1).
cosineSimilarity(a, b) ==
    IF Len(a) # Len(b) THEN [dot |-> 0, magnitudeA |-> 1, magnitudeB |-> 1]
    ELSE LET dotProduct == SumOver(a, b, 1)
             magnitudeA == SumOver(a, a, 1)
             magnitudeB == SumOver(b, b, 1)
         IN  IF magnitudeA = 0 \/ magnitudeB = 0
             THEN [dot |-> 0, magnitudeA |-> 1, magnitudeB |-> 1]
             ELSE [dot |-> dotProduct, magnitudeA |-> magnitudeA,
                   magnitudeB |-> magnitudeB]

\* x <= y for the doubles of two similarities with dot > 0, the double of a
\* similarity being dot / (Math.sqrt(magnitudeA) * Math.sqrt(magnitudeB)) as
\* IEEE 754 computes it: each of the two square roots, their product and the
\* quotient is rounded to the nearest number of 53 significant bits, a tie to
\* the even one.  The four roundings move the quotient by less than 4.5 in
\* 10^16 of itself, so the order of the two exact quotients is the order of
\* the two doubles whenever the squares of the quotients, brought to a common
\* denominator as l and r, satisfy |l - r| * 2^49 > l + r; numbers whose
\* l and r stay under 2^31 and differ always do.  When all four
\* magnitudes are squares the roots and their products are exact, and equal
\* quotients give equal doubles.  In every other case the two doubles are
\* computed, each as a mantissa m of four digits and an exponent e, m * 2^e.
\* Whole numbers are sequences of digits to the base 2^15, the lowest first.
DoubleLeq(x, y) ==
    LET Radix == 32768
        RECURSIVE Big(_)
        Big(n) == IF n = 0 THEN <<>> ELSE <<n % Radix>> \o Big(n \div Radix)
        RECURSIVE Trim(_)
        Trim(n) == IF n = <<>> \/ n[Len(n)] # 0 THEN n ELSE Trim(SubSeq(n, 1, Len(n) - 1))
        Digit(n, i) == IF i <= Len(n) THEN n[i] ELSE 0
        RECURSIVE AddFrom(_, _, _, _)
        AddFrom(n, k, i, carry) ==
            IF i > Max(Len(n), Len(k)) THEN (IF carry = 0 THEN <<>> ELSE <<carry>>)
            ELSE CHOOSE sum \in
                    {<<digit % Radix>> \o AddFrom(n, k, i + 1, digit \div Radix) :
                        digit \in {Digit(n, i) + Digit(k, i) + carry}} : TRUE
        Add(n, k) == AddFrom(n, k, 1, 0)
        RECURSIVE SubFrom(_, _, _, _)
        SubFrom(n, k, i, borrow) ==
            IF i > Len(n) THEN <<>>
            ELSE CHOOSE difference \in
                    {<<(digit + Radix) % Radix>>
                        \o SubFrom(n, k, i + 1, IF digit < 0 THEN 1 ELSE 0) :
                        digit \in {n[i] - Digit(k, i) - borrow}} : TRUE
        Sub(n, k) == Trim(SubFrom(n, k, 1, 0))
        RECURSIVE LessFrom(_, _, _)
        LessFrom(n, k, i) ==
            IF i = 0 THEN FALSE
            ELSE IF n[i] # k[i] THEN n[i] < k[i]
            ELSE LessFrom(n, k, i - 1)
        Less(n, k) == IF Len(n) # Len(k) THEN Len(n) < Len(k) ELSE LessFrom(n, k, Len(n))
        RECURSIVE MulSmallFrom(_, _, _, _)
        MulSmallFrom(n, k, i, carry) ==
            IF i > Len(n) THEN Big(carry)
            ELSE CHOOSE product \in
                    {<<digit % Radix>> \o MulSmallFrom(n, k, i + 1, digit \div Radix) :
                        digit \in {n[i] * k + carry}} : TRUE
        MulSmall(n, k) == IF k = 0 THEN <<>> ELSE MulSmallFrom(n, k, 1, 0)
        RECURSIVE MulFrom(_, _, _)
        MulFrom(n, k, i) ==
            IF i > Len(k) THEN <<>>
            ELSE Add(MulSmall(n, k[i]), <<0>> \o MulFrom(n, k, i + 1))
        Mul(n, k) == IF n = <<>> THEN <<>> ELSE Trim(MulFrom(n, k, 1))
        Pow2(k) == [i \in 1..(k \div 15 + 1) |-> IF i = k \div 15 + 1 THEN 2 ^ (k % 15) ELSE 0]
        Shl(n, k) == Mul(n, Pow2(k))
        Half(n) ==
            Trim([i \in 1..Len(n) |-> n[i] \div 2 + (Digit(n, i + 1) % 2) * (Radix \div 2)])
        RECURSIVE BitsOf(_)
        BitsOf(n) == IF n = 0 THEN 0 ELSE 1 + BitsOf(n \div 2)
        Bits(n) == IF n = <<>> THEN 0 ELSE 15 * (Len(n) - 1) + BitsOf(n[Len(n)])
        \* the largest digit, k and the bits from 2^bit down, with d * digit <= r
        RECURSIVE DigitFrom(_, _, _, _)
        DigitFrom(r, d, k, bit) ==
            IF bit < 0 THEN k
            ELSE CHOOSE digit \in
                    {DigitFrom(r, d, next, bit - 1) :
                        next \in {IF Less(r, MulSmall(d, k + 2 ^ bit)) THEN k
                                  ELSE k + 2 ^ bit}} : TRUE
        \* long division of the digits i, i - 1, ..., 1 of n by d: floor(n / d)
        \* and the remainder
        RECURSIVE DivFrom(_, _, _, _, _)
        DivFrom(n, d, i, r, q) ==
            IF i = 0 THEN [q |-> Trim(q), r |-> r]
            ELSE CHOOSE done \in
                    {CHOOSE step \in
                        {DivFrom(n, d, i - 1, Sub(rr, MulSmall(d, k)), <<k>> \o q) :
                            k \in {DigitFrom(rr, d, 0, 14)}} : TRUE
                        : rr \in {Trim(<<n[i]>> \o r)}} : TRUE
        DivMod(n, d) == DivFrom(n, d, Len(n), <<>>, <<>>)
        \* m rounded up if up, as a double of 53 bits with exponent e
        Rounded(m, up, e) ==
            CHOOSE double \in
                {IF next = Pow2(53) THEN [m |-> Pow2(52), e |-> e + 1]
                 ELSE [m |-> next, e |-> e] :
                    next \in {IF up THEN Add(m, <<1>>) ELSE m}} : TRUE
        \* the double nearest to n / d * 2^e, a tie to the even one: the
        \* quotient is taken with 53 or 54 bits, and with 54 bits the last
        \* one is rounded away together with the remainder
        Round53(n, d, e) ==
            CHOOSE double \in
                {CHOOSE shifted \in
                    {CHOOSE divided \in
                        {CHOOSE rounded \in
                            {CHOOSE doubled \in
                                {IF Less(dm.q, Pow2(53))
                                 THEN Rounded(dm.q,
                                              \/ Less(den, twice)
                                              \/ (twice = den /\ dm.q[1] % 2 = 1),
                                              e - s)
                                 ELSE Rounded(Half(dm.q),
                                              /\ dm.q[1] % 2 = 1
                                              /\ (dm.r # <<>> \/ (dm.q[1] \div 2) % 2 = 1),
                                              e - s + 1) :
                                    twice \in {Add(dm.r, dm.r)}} : TRUE
                                : dm \in {DivMod(IF s >= 0 THEN scaled ELSE n, den)}} : TRUE
                            : den \in {IF s >= 0 THEN d ELSE scaled}} : TRUE
                        : scaled \in {Shl(IF s >= 0 THEN n ELSE d,
                                          IF s >= 0 THEN s ELSE -s)}} : TRUE
                    : s \in {53 - (Bits(n) - Bits(d))}} : TRUE
        \* floor(sqrt(n)) by Newton's iteration from f >= floor(sqrt(n))
        RECURSIVE SqrtFrom(_, _)
        SqrtFrom(n, f) ==
            CHOOSE root \in
                {IF Less(g, f) THEN SqrtFrom(n, g) ELSE f :
                    g \in {Half(Add(f, DivMod(n, f).q))}} : TRUE
        \* Math.sqrt(n) of a whole number n > 0: no square root of a whole
        \* number lies half way between two doubles
        Sqrt(n) ==
            CHOOSE root \in
                {CHOOSE rounded \in
                    {Rounded(f, Less(Add(Mul(f, f), f), scaled),
                             -((106 - BitsOf(n)) \div 2))
                        : f \in {SqrtFrom(scaled, Pow2(53))}} : TRUE
                    : scaled \in {Shl(Big(n), 2 * ((106 - BitsOf(n)) \div 2))}} : TRUE
        \* dotProduct / (Math.sqrt(magnitudeA) * Math.sqrt(magnitudeB))
        Float64(z) ==
            CHOOSE quotient \in
                {Round53(Big(z.dot), magnitude.m, -magnitude.e) :
                    magnitude \in
                        {Round53(Mul(root[1].m, root[2].m), <<1>>, root[1].e + root[2].e) :
                            root \in {SubSeq([i \in 1..2 |->
                                        Sqrt(IF i = 1 THEN z.magnitudeA ELSE z.magnitudeB)],
                                        1, 2)}}} : TRUE
        \* dot^2 of z times the squared magnitudes of w
        Squared(z, w) ==
            Mul(Mul(Big(z.dot), Big(z.dot)), Mul(Big(w.magnitudeA), Big(w.magnitudeB)))
        IsSquare(n) == \E k \in 1..Min(n, 46340) : k * k = n
        Squares(z) == \A n \in {z.magnitudeA, z.magnitudeB} : IsSquare(n)
        \* |l - r| * 2^49 > l + r
        Apart(l, r) ==
            /\ l # r
            /\ Less(Add(l, r),
                    <<0, 0, 0>> \o MulSmall(Sub(IF Less(l, r) THEN r ELSE l,
                                                IF Less(l, r) THEN l ELSE r), 16))
        Small(z) == /\ z.dot <= 215
                    /\ z.magnitudeA <= 46340 /\ z.magnitudeB <= 46340
                    /\ z.magnitudeA * z.magnitudeB <= 46340
        SmallSquared(z, w) == z.dot * z.dot * (w.magnitudeA * w.magnitudeB)
    IN  IF x = y THEN TRUE
        ELSE IF Small(x) /\ Small(y) /\ SmallSquared(x, y) # SmallSquared(y, x)
        THEN SmallSquared(x, y) < SmallSquared(y, x)
        ELSE CHOOSE leq \in
                {IF Apart(sq[1], sq[2]) THEN Less(sq[1], sq[2])
                 ELSE IF sq[1] = sq[2] /\ Squares(x) /\ Squares(y) THEN TRUE
                 ELSE CHOOSE computed \in
                        {\/ double[1].e < double[2].e
                         \/ /\ double[1].e = double[2].e
                            /\ ~Less(double[2].m, double[1].m) :
                            double \in {SubSeq([i \in 1..2 |->
                                            Float64(IF i = 1 THEN x ELSE y)], 1, 2)}} : TRUE
                    : sq \in {SubSeq([i \in 1..2 |->
                                Squared(IF i = 1 THEN x ELSE y, IF i = 1 THEN y ELSE x)],
                                1, 2)}} : TRUE

\* x <= y for two similarities
SimLeq(x, y) ==
    IF (x.dot <= 0 \/ y.dot <= 0) /\ ~(x.dot < 0 /\ y.dot < 0)
    THEN x.dot <= 0 /\ y.dot >= 0
    ELSE DoubleLeq(IF x.dot < 0 THEN [y EXCEPT !.dot = -y.dot] ELSE x,
                   IF x.dot < 0 THEN [x EXCEPT !.dot = -x.dot] ELSE y)

\* Math.max(...sims) of a non-empty array
SimMax(sims) == CHOOSE x \in Range(sims) : \A y \in Range(sims) : SimLeq(y, x)

\* the carry-in threshold 0.86, in hundredths
Threshold == 86

\* the double a literal of so many hundredths stands for: hundredths / 100,
\* rounded to the nearest double
Literal(hundredths) == [dot |-> hundredths, magnitudeA |-> 100, magnitudeB |-> 100]

\* x > hundredths / 100
SimAbove(x, hundredths) == ~SimLeq(x, Literal(hundredths))

\* x >= hundredths / 100
SimAtLeast(x, hundredths) == SimLeq(Literal(hundredths), x)

\* FetchRecent with entries.slice(-6)
FetchRecentSix(log) == SubSeq(log, Max(1, Len(log) - 5), Len(log))

\* Step 03 FETCH_RECENT: entries.slice(-5)
FetchRecent(log) == SubSeq(log, Max(1, Len(log) - 4), Len(log))

\* recent.some(entry => entry.parsed.theme.some(theme => parsed.theme.includes(theme)))
hasThemeOverlap(parsed, recent) ==
    \E i \in 1..Len(recent) : Range(recent[i].parsed.theme) \cap Range(parsed.theme) # {}

maxSimilarity(embedding, recent) ==
    SimMax([i \in 1..Len(recent) |-> cosineSimilarity(embedding, recent[i].embedding)])

\* detectCarryIn with carryIn initialised to true
detectCarryInDefaultTrue(parsed, embedding, recent) ==
    IF Len(recent) > 0
    THEN hasThemeOverlap(parsed, recent) \/ SimAbove(maxSimilarity(embedding, recent), Threshold)
    ELSE TRUE

\* detectCarryIn with && in place of ||
detectCarryInBoth(parsed, embedding, recent) ==
    IF Len(recent) > 0
    THEN hasThemeOverlap(parsed, recent) /\ SimAbove(maxSimilarity(embedding, recent), Threshold)
    ELSE FALSE

\* detectCarryIn with the threshold 0.7
detectCarryInSeventy(parsed, embedding, recent) ==
    IF Len(recent) > 0
    THEN hasThemeOverlap(parsed, recent) \/ SimAbove(maxSimilarity(embedding, recent), 70)
    ELSE FALSE

\* Step 07 CARRY_IN
detectCarryIn(parsed, embedding, recent) ==
    IF Len(recent) > 0
    THEN hasThemeOverlap(parsed, recent) \/ SimAbove(maxSimilarity(embedding, recent), Threshold)
    ELSE FALSE

(***************************************************************************)
(* The profile.  A JavaScript object used as a counter (theme_count,       *)
(* vibe_count, bucket_count) is the sequence of its [key, count] entries   *)
(* in insertion order, which is the order of Object.entries.               *)
(***************************************************************************)
EmptyProfile ==
    [top_themes |-> <<>>, theme_count |-> <<>>, dominant_vibe |-> "",
     vibe_count |-> <<>>, bucket_count |-> <<>>, trait_pool |-> <<>>,
     last_theme |-> ""]

Keys(counter) == {counter[i].key : i \in 1..Len(counter)}

\* counter[key] || 0
CountOf(counter, key) ==
    IF key \in Keys(counter)
    THEN (CHOOSE e \in Range(counter) : e.key = key).count
    ELSE 0

\* Increment with the count of a known key overwritten instead of raised
IncrementOverwrite(counter, key) ==
    IF key \in Keys(counter)
    THEN [i \in 1..Len(counter) |->
            IF counter[i].key = key THEN [key |-> key, count |-> 1] ELSE counter[i]]
    ELSE Append(counter, [key |-> key, count |-> 1])

\* counter[key] = (counter[key] || 0) + 1
Increment(counter, key) ==
    IF key \in Keys(counter)
    THEN [i \in 1..Len(counter) |->
            IF counter[i].key = key
            THEN [key |-> key, count |-> counter[i].count + 1]
            ELSE counter[i]]
    ELSE Append(counter, [key |-> key, count |-> 1])

\* labels.forEach(label => counter[label] = (counter[label] || 0) + 1)
RECURSIVE IncrementAll(_, _)
IncrementAll(counter, labels) ==
    IF labels = <<>> THEN counter
    ELSE IncrementAll(Increment(counter, Head(labels)), Tail(labels))

\* traits.forEach(trait => { if (!pool.includes(trait)) pool.push(trait) })
RECURSIVE AddTraits(_, _)
AddTraits(pool, traits) ==
    IF traits = <<>> THEN pool
    ELSE AddTraits(IF Head(traits) \in Range(pool) THEN pool ELSE Append(pool, Head(traits)),
                   Tail(traits))

\* insert e into the sequence sorted by count descending, after the entries
\* with the same count
RECURSIVE InsertByCount(_, _)
InsertByCount(sorted, e) ==
    IF sorted = <<>> THEN <<e>>
    ELSE IF Head(sorted).count >= e.count THEN <<Head(sorted)>> \o InsertByCount(Tail(sorted), e)
    ELSE <<e>> \o sorted

\* SortByCountDesc without the sort: the entries in insertion order
SortByCountOmitted(counter) == counter

\* Object.entries(counter).sort(([, a], [, b]) => b - a): a stable sort
RECURSIVE SortByCountDesc(_)
SortByCountDesc(counter) ==
    IF counter = <<>> THEN <<>>
    ELSE InsertByCount(SortByCountDesc(SubSeq(counter, 1, Len(counter) - 1)),
                       counter[Len(counter)])

\* TopKeys without .slice(0, n)
TopKeysAll(sorted, n) == [i \in 1..Len(sorted) |-> sorted[i].key]

\* .slice(0, n).map(([key]) => key)
TopKeys(sorted, n) == [i \in 1..Min(n, Len(sorted)) |-> sorted[i].key]

\* updateUserProfile with dominant_vibe set to the first vibe of the entry
updateUserProfileLatestVibe(profile, parsed) ==
    LET theme_count == IncrementAll(profile.theme_count, parsed.theme)
        vibe_count == IncrementAll(profile.vibe_count, parsed.vibe)
        bucket_count == IncrementAll(profile.bucket_count, parsed.bucket)
    IN  [top_themes |-> TopKeys(SortByCountDesc(theme_count), 4),
         theme_count |-> theme_count,
         dominant_vibe |-> IF Len(parsed.vibe) > 0 THEN parsed.vibe[1]
                           ELSE profile.dominant_vibe,
         vibe_count |-> vibe_count,
         bucket_count |-> bucket_count,
         trait_pool |-> AddTraits(profile.trait_pool, parsed.persona_trait),
         last_theme |-> IF Len(parsed.theme) > 0 THEN parsed.theme[1]
                        ELSE profile.last_theme]

\* Step 09 PROFILE_UPDATE
updateUserProfile(profile, parsed) ==
    LET theme_count == IncrementAll(profile.theme_count, parsed.theme)
        vibe_count == IncrementAll(profile.vibe_count, parsed.vibe)
        bucket_count == IncrementAll(profile.bucket_count, parsed.bucket)
        sortedVibes == SortByCountDesc(vibe_count)
    IN  [top_themes |-> TopKeys(SortByCountDesc(theme_count), 4),
         theme_count |-> theme_count,
         dominant_vibe |-> IF Len(sortedVibes) > 0 THEN sortedVibes[1].key
                           ELSE profile.dominant_vibe,
         vibe_count |-> vibe_count,
         bucket_count |-> bucket_count,
         trait_pool |-> AddTraits(profile.trait_pool, parsed.persona_trait),
         last_theme |-> IF Len(parsed.theme) > 0 THEN parsed.theme[1]
                        ELSE profile.last_theme]

(***************************************************************************)
(* Step 11 GPT_REPLY                                                       *)
(***************************************************************************)
firstEntryResponses ==
    [v \in {"happy","anxious","exhausted","frustrated","sad","calm","driven","reflective"} |->
        CASE v = "happy"      -> "Your joy comes through clearly~what a lovely moment!"
          [] v = "anxious"    -> "You're feeling the weight~take it one step at a time."
          [] v = "exhausted"  -> "Sounds like you're drained but trying~rest is not failure."
          [] v = "frustrated" -> "That frustration is real~you're allowed to feel it."
          [] v = "sad"        -> "I hear the heaviness in your words~you're not alone."
          [] v = "calm"       -> "There's peace in your words~hold onto that feeling."
          [] v = "driven"     -> "Your determination shines through~channel that energy."
          [] v = "reflective" -> "I hear you processing~your thoughts matter."]

\* experiencedResponses with a longer reply for 'reflective'
experiencedResponsesLong ==
    [v \in {"happy","anxious","exhausted","frustrated","sad","calm","driven","reflective"} |->
        CASE v = "happy"      -> "[# Your energy is infectious~this joy suits you! *"
          [] v = "anxious"    -> "[# Still wrestling with those thoughts, but growth is here {0"
          [] v = "exhausted"  -> "[# You're still wired-in, but self-care matters too {1"
          [] v = "frustrated" -> "[# That familiar tension~you're stronger than before {2"
          [] v = "sad"        -> "[# The depth in your reflection shows such wisdom (3"
          [] v = "calm"       -> "[# This centered version of you is beautiful to see (4"
          [] v = "driven"     -> "[# Your fire keeps burning bright~I see the focus /"
          [] v = "reflective" -> "[# Your depth keeps growing~wisdom is building day by day {5"]

experiencedResponses ==
    [v \in {"happy","anxious","exhausted","frustrated","sad","calm","driven","reflective"} |->
        CASE v = "happy"      -> "[# Your energy is infectious~this joy suits you! *"
          [] v = "anxious"    -> "[# Still wrestling with those thoughts, but growth is here {0"
          [] v = "exhausted"  -> "[# You're still wired-in, but self-care matters too {1"
          [] v = "frustrated" -> "[# That familiar tension~you're stronger than before {2"
          [] v = "sad"        -> "[# The depth in your reflection shows such wisdom (3"
          [] v = "calm"       -> "[# This centered version of you is beautiful to see (4"
          [] v = "driven"     -> "[# Your fire keeps burning bright~I see the focus /"
          [] v = "reflective" -> "[# Your depth keeps growing~wisdom building daily {5"]

carryInSuffixes ==
    [t \in {"work-life balance","family","health","relationships"} |->
        CASE t = "work-life balance" -> " This theme keeps surfacing {6"
          [] t = "family"            -> " Family remains close to your heart {7"
          [] t = "health"            -> " Your wellness journey continues (8"
          [] t = "relationships"     -> " Connections matter deeply to you [9"]

\* The character class of the regular expression of part_002:323.  The
\* expression has no u flag, so the class holds the code units of its eight
\* emoji, surrogate halves included.
TrailingEmojiUnits == {"*", "{", "0", "1", "2", "(", "3", "4", "/", "5"}

\* response.replace(/[...]$/, suffix): the last code unit is replaced
replaceTrailingEmoji(response, suffix) ==
    IF Len(response) > 0 /\ At(response, Len(response)) \in TrailingEmojiUnits
    THEN SubSeq(response, 1, Len(response) - 1) \o suffix
    ELSE response

\* the reply length the carry-in suffix must stay within
ReplyLimit == 55

\* generateEmpathicReply without the length test of the carry-in suffix
generateEmpathicReplyAnyLength(parsed, isFirstEntry, carryIn) ==
    LET primaryVibe == IF Len(parsed.vibe) > 0 THEN parsed.vibe[1] ELSE "reflective"
        primaryTheme == IF Len(parsed.theme) > 0 THEN parsed.theme[1] ELSE "general"
    IN  IF isFirstEntry
        THEN IF primaryVibe \in DOMAIN firstEntryResponses
             THEN firstEntryResponses[primaryVibe]
             ELSE "Thank you for sharing this with me."
        ELSE LET response == IF primaryVibe \in DOMAIN experiencedResponses
                             THEN experiencedResponses[primaryVibe]
                             ELSE "[# Your journey continues to unfold beautifully *"
             IN  IF carryIn /\ primaryTheme \in DOMAIN carryInSuffixes
                 THEN replaceTrailingEmoji(response, carryInSuffixes[primaryTheme])
                 ELSE response

generateEmpathicReply(parsed, isFirstEntry, carryIn) ==
    LET primaryVibe == IF Len(parsed.vibe) > 0 THEN parsed.vibe[1] ELSE "reflective"
        primaryTheme == IF Len(parsed.theme) > 0 THEN parsed.theme[1] ELSE "general"
    IN  IF isFirstEntry
        THEN IF primaryVibe \in DOMAIN firstEntryResponses
             THEN firstEntryResponses[primaryVibe]
             ELSE "Thank you for sharing this with me."
        ELSE LET response == IF primaryVibe \in DOMAIN experiencedResponses
                             THEN experiencedResponses[primaryVibe]
                             ELSE "[# Your journey continues to unfold beautifully *"
             IN  IF carryIn /\ primaryTheme \in DOMAIN carryInSuffixes
                    /\ Len(response) + Len(carryInSuffixes[primaryTheme]) <= ReplyLimit
                 THEN replaceTrailingEmoji(response, carryInSuffixes[primaryTheme])
                 ELSE response

(***************************************************************************)
(* The operations of the in-memory pipeline.  processTranscript is an      *)
(* async function without an await: a call runs from its first statement   *)
(* to its return in one step.                                              *)
(***************************************************************************)

\* Math.random().toString(36).substr(2, 9): up to nine digits after "0."
randomSuffix(randomString) == SubSeq(randomString, 3, Min(Len(randomString), 11))

\* 'entry_' + Date.now() + '_' + Math.random().toString(36).substr(2, 9)
makeEntryId(time, randomString) ==
    "entry_" \o ToString(time) \o "_" \o randomSuffix(randomString)

\* isFirstEntry computed before the entry is pushed
IsFirstEntryBeforePush(saved) == Len(saved) = 0

\* const isFirstEntry = entries.length === 1, after the push
IsFirstEntry(saved) == Len(saved) = 1

\* pipelineSteps suspended after Step 03: recent holds the log as it was when
\* the caller last received a result, not the log left by the previous call
pipelineStepsStaleRecent(st, rawText, embedding, time, stamp, randomString) ==
    LET recent == FetchRecent(SubSeq(st.entries, 1, Min(awaited, Len(st.entries))))
        parsed == parseEntry(rawText)
        carryIn == detectCarryIn(parsed, embedding, recent)
        updatedProfile == updateUserProfile(st.userProfile, parsed)
        entryId == makeEntryId(time, randomString)
        newEntry == [id |-> entryId, raw_text |-> rawText, embedding |-> embedding,
                     parsed |-> parsed, timestamp |-> stamp]
        saved == Append(st.entries, newEntry)
        responseText == generateEmpathicReply(parsed, IsFirstEntry(saved), carryIn)
    IN  [entries |-> saved,
         userProfile |-> updatedProfile,
         result |-> [entryId |-> entryId, response_text |-> responseText,
                     carry_in |-> carryIn]]

\* pipelineSteps with Step 10 SAVE_ENTRY moved before Step 03 FETCH_RECENT:
\* the entry is among the recent entries it is compared with
pipelineStepsSaveFirst(st, rawText, embedding, time, stamp, randomString) ==
    LET parsed == parseEntry(rawText)
        entryId == makeEntryId(time, randomString)
        newEntry == [id |-> entryId, raw_text |-> rawText, embedding |-> embedding,
                     parsed |-> parsed, timestamp |-> stamp]
        saved == Append(st.entries, newEntry)
        recent == FetchRecent(saved)
        carryIn == detectCarryIn(parsed, embedding, recent)
        updatedProfile == updateUserProfile(st.userProfile, parsed)
        responseText == generateEmpathicReply(parsed, IsFirstEntry(saved), carryIn)
    IN  [entries |-> saved,
         userProfile |-> updatedProfile,
         result |-> [entryId |-> entryId, response_text |-> responseText,
                     carry_in |-> carryIn]]

\* pipelineSteps with entries.unshift(newEntry) in place of entries.push
pipelineStepsUnshift(st, rawText, embedding, time, stamp, randomString) ==
    LET recent == FetchRecent(st.entries)
        parsed == parseEntry(rawText)
        carryIn == detectCarryIn(parsed, embedding, recent)
        updatedProfile == updateUserProfile(st.userProfile, parsed)
        entryId == makeEntryId(time, randomString)
        newEntry == [id |-> entryId, raw_text |-> rawText, embedding |-> embedding,
                     parsed |-> parsed, timestamp |-> stamp]
        saved == <<newEntry>> \o st.entries
        responseText == generateEmpathicReply(parsed, IsFirstEntry(saved), carryIn)
    IN  [entries |-> saved,
         userProfile |-> updatedProfile,
         result |-> [entryId |-> entryId, response_text |-> responseText,
                     carry_in |-> carryIn]]

\* One run of processTranscript on the state st = [entries, userProfile]: the
\* state it leaves and the result it returns.  time is the reading of Date.now()
\* in the id (line 374), stamp the later reading of new Date() (line 380).
\* Steps 05, 08 and 13 only write to the console.
pipelineSteps(st, rawText, embedding, time, stamp, randomString) ==
    LET recent == FetchRecent(st.entries)
        parsed == parseEntry(rawText)
        carryIn == detectCarryIn(parsed, embedding, recent)
        updatedProfile == updateUserProfile(st.userProfile, parsed)
        entryId == makeEntryId(time, randomString)
        newEntry == [id |-> entryId, raw_text |-> rawText, embedding |-> embedding,
                     parsed |-> parsed, timestamp |-> stamp]
        saved == Append(st.entries, newEntry)
        responseText == generateEmpathicReply(parsed, IsFirstEntry(saved), carryIn)
    IN  [entries |-> saved,
         userProfile |-> updatedProfile,
         result |-> [entryId |-> entryId, response_text |-> responseText,
                     carry_in |-> carryIn]]

\* Steps 01 and 02, then the rest
runPipeline(st, transcript, time, stamp, randomString) ==
    LET rawText == trim(transcript)
    IN  pipelineSteps(st, rawText, createEmbedding(rawText), time, stamp, randomString)

\* processTranscript reads the clock four times: startTime (line 334), the id
\* (374), the timestamp (380) and endTime (392)
ReadsPerCall == 4

\* The clock during a run that reads it n times: it stands at now and jumps at
\* most once, by `by` milliseconds, before reading number jumpAt.
Clocks(n) ==
    {[jumpAt |-> j, by |-> d] : j \in 1..n, d \in 1..(MaxClock - now)}
        \cup {[jumpAt |-> n + 1, by |-> 0]}

\* reading number k of a clock that stood at base
ReadClock(base, clock, k) == base + (IF k >= clock.jumpAt THEN clock.by ELSE 0)

processTranscript(transcript, randomString, clock) ==
    \E out \in {runPipeline([entries |-> entries, userProfile |-> userProfile],
                             transcript, ReadClock(now, clock, 2),
                             ReadClock(now, clock, 3), randomString)} :
        /\ entries' = out.entries
        /\ userProfile' = out.userProfile
        /\ results' = Append(results, out.result)
        /\ issuedIds' = Append(issuedIds, out.result.entryId)
        /\ now' = ReadClock(now, clock, ReadsPerCall)
        /\ UNCHANGED awaited
        /\ UNCHANGED <<supaVars, auxVars>>

\* resetState without the assignment to userProfile
resetStateKeepsProfile ==
    /\ entries' = <<>>
    /\ results' = <<>>
    /\ awaited' = 0
    /\ UNCHANGED <<userProfile, now, issuedIds>>
    /\ UNCHANGED <<supaVars, auxVars>>

resetState ==
    /\ entries' = <<>>
    /\ userProfile' = EmptyProfile
    /\ results' = <<>>
    /\ awaited' = 0
    /\ UNCHANGED <<now, issuedIds>>
    /\ UNCHANGED <<supaVars, auxVars>>

\* a millisecond passes
Tick ==
    /\ now < MaxClock
    /\ now' = now + 1
    /\ UNCHANGED <<entries, userProfile, results, issuedIds, awaited>>
    /\ UNCHANGED <<supaVars, auxVars>>

\* the transcripts submitted
Transcripts ==
    { "I am exhausted",
      "Work makes me anxious",
      "  happy at work\n",
      "Mom will help plan my job",
      "My friend asked my doctor about money",
      "   ",
      "" }

\* values of Math.random().toString(36); the first two agree on the nine
\* digits that substr(2, 9) keeps
RandomStrings == {"0.4fzyo82mvyr", "0.4fzyo82mvzz", "0.q1w2e3r4t5y"}

MemInit ==
    /\ entries = <<>>
    /\ userProfile = EmptyProfile
    /\ now = 0
    /\ results = <<>>
    /\ issuedIds = <<>>
    /\ awaited = 0

Process ==
    /\ Len(issuedIds) < MaxCalls
    /\ \E transcript \in Transcripts, randomString \in RandomStrings,
          clock \in Clocks(ReadsPerCall) :
          processTranscript(transcript, randomString, clock)

(***************************************************************************)
(* The caller.  processTranscript is an async function without an await:   *)
(* a call runs its whole body before it returns its promise, and the       *)
(* caller reads the result when it awaits the promise (await, Promise.all) *)
(* or never (generateMockEntries).  Call starts a call; Await is the       *)
(* caller receiving the oldest result it has not yet received.             *)
(***************************************************************************)
MaxAsyncCalls == 3

AsyncTranscripts == {"I am exhausted", "Work makes me anxious", "happy at work"}

Call ==
    /\ Len(issuedIds) < MaxAsyncCalls
    /\ \E transcript \in AsyncTranscripts, randomString \in {"0.4fzyo82mvyr", "0.q1w2e3r4t5y"},
          clock \in Clocks(ReadsPerCall) :
          processTranscript(transcript, randomString, clock)

Await ==
    /\ awaited < Len(results)
    /\ awaited' = awaited + 1
    /\ UNCHANGED <<entries, userProfile, now, results, issuedIds>>
    /\ UNCHANGED <<supaVars, auxVars>>

(***************************************************************************)
(* generateMockEntries.  The loop calls processTranscript and drops the    *)
(* promise; every call has run to its end when the next one starts.        *)
(***************************************************************************)
mockTranscripts ==
    <<
       "I'm feeling really anxious about the presentation tomorrow. I keep going over it in my head but I can't seem to calm down.",
       "Had such a great day with friends today. We went hiking and I felt so connected to nature and everyone around me.",
       "Work has been overwhelming lately. I feel like I'm drowning in tasks and deadlines, and I don't know how to prioritize.",
       "My mom called today and we had a really good conversation about life and family. It made me feel grateful.",
       "I've been thinking about my career goals and where I want to be in five years. It's exciting but also scary.",
       "Feeling grateful for the small moments today. The sunset was absolutely beautiful and it made me pause.",
       "Had a fight with my partner and I'm not sure how to resolve it. Feeling frustrated and misunderstood.",
       "Completed my morning workout and meditation. Starting the day feeling centered and focused.",
       "Been struggling with sleep lately. My mind just won't quiet down at night and I'm exhausted.",
       "Proud of myself for taking on that challenging project at work. Growth feels uncomfortable but good." >>

\* mockLoop with calls that overlap: each call reads the log and the profile
\* as they were when generateMockEntries was called, and the last one to
\* write wins
RECURSIVE mockLoopStale(_, _, _, _, _, _)
mockLoopStale(st, i, count, base, clock, randomStrings) ==
    IF i >= count THEN st
    ELSE LET transcript == mockTranscripts[(i % Len(mockTranscripts)) + 1]
             variation == " (Variation " \o ToString((i \div Len(mockTranscripts)) + 1) \o ")"
         IN  CHOOSE done \in
                 {IF i = count - 1
                  THEN [entries |-> out.entries, userProfile |-> out.userProfile,
                        results |-> Append(st.results, out.result)]
                  ELSE mockLoopStale([entries |-> st.entries, userProfile |-> st.userProfile,
                                      results |-> Append(st.results, out.result)],
                                     i + 1, count, base, clock, randomStrings) :
                  out \in {runPipeline([entries |-> st.entries, userProfile |-> st.userProfile],
                                       transcript \o variation,
                                       ReadClock(base, clock, ReadsPerCall * i + 2),
                                       ReadClock(base, clock, ReadsPerCall * i + 3),
                                       randomStrings[i + 1])}} : TRUE

\* the calls i, i + 1, ..., count - 1 of the loop, on the state st.  Every call
\* reads the clock and Math.random() itself: call i makes the readings
\* 4i + 1 .. 4i + 4 of the clock and takes randomStrings[i + 1].
RECURSIVE mockLoop(_, _, _, _, _, _)
mockLoop(st, i, count, base, clock, randomStrings) ==
    IF i >= count THEN st
    ELSE LET transcript == mockTranscripts[(i % Len(mockTranscripts)) + 1]
             variation == " (Variation " \o ToString((i \div Len(mockTranscripts)) + 1) \o ")"
         IN  CHOOSE done \in
                 {mockLoop([entries |-> out.entries, userProfile |-> out.userProfile,
                            results |-> Append(st.results, out.result)],
                           i + 1, count, base, clock, randomStrings) :
                  out \in {runPipeline([entries |-> st.entries, userProfile |-> st.userProfile],
                                       transcript \o variation,
                                       ReadClock(base, clock, ReadsPerCall * i + 2),
                                       ReadClock(base, clock, ReadsPerCall * i + 3),
                                       randomStrings[i + 1])}} : TRUE

generateMockEntries(count, clock, randomStrings) ==
    \E out \in {mockLoop([entries |-> entries, userProfile |-> userProfile, results |-> <<>>],
                          0, count, now, clock, randomStrings)} :
        /\ entries' = out.entries
        /\ userProfile' = out.userProfile
        /\ results' = results \o out.results
        /\ issuedIds' = issuedIds \o [i \in 1..Len(out.results) |-> out.results[i].entryId]
        /\ now' = ReadClock(now, clock, ReadsPerCall * count)
        /\ UNCHANGED awaited
        /\ UNCHANGED <<supaVars, auxVars>>

MaxMockEntries == 13
MaxBeforeMock == 1  \* entries issued before a call of generateMockEntries

\* the counts generateMockEntries is called with: none, a few, and more than
\* there are mock transcripts
MockCounts == {0, 2, 12}

\* the values Math.random().toString(36) takes in the calls of one loop: the
\* same value in every call, or one value in the odd calls and another in the
\* even calls
MockRandomStrings(count) ==
    {[i \in 1..count |-> IF i % 2 = 1 THEN odd ELSE "0.q1w2e3r4t5y"] :
        odd \in {"0.4fzyo82mvyr", "0.q1w2e3r4t5y"}}

Mock ==
    \E count \in MockCounts :
        /\ Len(issuedIds) + count <= MaxMockEntries
        /\ Len(issuedIds) <= MaxBeforeMock
        /\ \E clock \in Clocks(ReadsPerCall * count), randomStrings \in MockRandomStrings(count) :
              generateMockEntries(count, clock, randomStrings)

\* a processTranscript call between, before or after the mock entries
MockProcess ==
    /\ Len(issuedIds) < MaxMockEntries
    /\ \E clock \in Clocks(ReadsPerCall) :
          processTranscript("happy at work", "0.q1w2e3r4t5y", clock)

(***************************************************************************)
(* The carry-in decision between texts without a common theme: two, of the *)
(* themes 'work-life balance' and 'family', whose embeddings have the      *)
(* similarity 0.7139, and one of the theme 'personal reflection' whose     *)
(* similarity to either is below 0.2.                                      *)
(***************************************************************************)
MaxCarryCalls == 4

CarryProcess ==
    /\ Len(issuedIds) < MaxCarryCalls
    /\ \E transcript \in {"work 3508915", "mom 927947", "I am exhausted"}, clock \in Clocks(0) :
          processTranscript(transcript, "0.q1w2e3r4t5y", clock)

(***************************************************************************)
(* Logs longer than the window of Step 03: two texts without a common      *)
(* theme, submitted up to MaxWindowCalls times.                            *)
(***************************************************************************)
MaxWindowCalls == 7

WindowTranscripts == {"happy at work", "I am exhausted"}

WindowProcess ==
    /\ Len(issuedIds) < MaxWindowCalls
    /\ \E transcript \in WindowTranscripts, clock \in Clocks(ReadsPerCall) :
          processTranscript(transcript, "0.q1w2e3r4t5y", clock)

(***************************************************************************)
(* Part III. The Supabase pipeline                                         *)
(***************************************************************************)

\* Step 06 PARSE_ENTRY of pipeline-supabase.ts
parseEntrySupabase(text) ==
    LET lowerText == toLowerCase(text)
        words == Words(lowerText)
        m(keywords) == matchesAny(words, keywords)
        inc(part) == includes(lowerText, part)
        one(cond, label) == IF cond THEN <<label>> ELSE <<>>
        themes0 ==
            one(m({"work","job","office","meeting","boss","colleague","project","deadline","career"}),
                "work-life balance")
            \o one(m({"family","mom","dad","parent","sibling","relative","home"}), "family")
            \o one(m({"health","exercise","doctor","medical","fitness","wellness"}), "health")
            \o one(m({"friend","social","party","relationship","dating","love"}), "relationships")
            \o one(m({"money","financial","budget","bills","salary","expenses"}), "finances")
            \o one(m({"study","learn","school","education","knowledge","skill"}), "learning")
        themes == IF Len(themes0) = 0 THEN <<"personal reflection">> ELSE themes0
        vibes0 ==
            one(m({"happy","joy","excited","cheerful","glad","pleased","delighted"}), "happy")
            \o one(m({"anxious","worried","nervous","scared","afraid","fearful"}), "anxious")
            \o one(m({"tired","exhausted","drained","weary","fatigued"}), "exhausted")
            \o one(m({"angry","mad","furious","irritated","annoyed","frustrated"}), "frustrated")
            \o one(m({"sad","depressed","down","blue","melancholy","gloomy"}), "melancholic")
            \o one(m({"confused","uncertain","unclear","lost","puzzled"}), "confused")
            \o one(m({"motivated","determined","driven","focused","inspired"}), "motivated")
        vibes == IF Len(vibes0) = 0 THEN <<"neutral">> ELSE vibes0
        intent ==
            IF inc("help") \/ inc("advice") \/ inc("what should") THEN "seeking guidance"
            ELSE IF inc("frustrated") \/ inc("angry") \/ inc("upset") THEN "venting"
            ELSE IF inc("excited") \/ inc("happy") \/ inc("great") THEN "sharing joy"
            ELSE IF inc("worried") \/ inc("anxious") \/ inc("concerned")
                THEN "expressing concern"
            ELSE "reflection"
        subtext ==
            IF "work-life balance" \in Range(themes) /\ "anxious" \in Range(vibes)
                THEN "work stress affecting wellbeing"
            ELSE IF "relationships" \in Range(themes) /\ "happy" \in Range(vibes)
                THEN "social connections bringing joy"
            ELSE IF "exhausted" \in Range(vibes) THEN "seeking rest and recovery"
            ELSE IF "confused" \in Range(vibes) THEN "navigating uncertainty"
            ELSE "processing daily experience"
        traits0 ==
            one(inc("i always") \/ inc("i usually"), "self-aware")
            \o one(inc("others") \/ inc("people") \/ inc("everyone"), "socially conscious")
            \o one(inc("should") \/ inc("need to") \/ inc("must"), "goal-oriented")
            \o one(inc("feel") \/ inc("emotion") \/ inc("heart"), "emotionally aware")
        traits == IF Len(traits0) = 0 THEN <<"reflective">> ELSE traits0
        buckets0 ==
            one("anxious" \in Range(vibes) \/ "frustrated" \in Range(vibes), "stress management")
            \o one("work-life balance" \in Range(themes), "career development")
            \o one("relationships" \in Range(themes) \/ "family" \in Range(themes),
                   "social wellness")
            \o one("health" \in Range(themes), "physical wellness")
            \o one("happy" \in Range(vibes) \/ "motivated" \in Range(vibes), "personal growth")
        buckets == IF Len(buckets0) = 0 THEN <<"general wellness">> ELSE buckets0
    IN  [theme |-> themes, vibe |-> vibes, intent |-> intent, subtext |-> subtext,
         persona_trait |-> traits, bucket |-> buckets]

\* [...new Set(items)]: the first occurrence of every element, in order
RECURSIVE Dedupe(_, _)
Dedupe(seen, items) ==
    IF items = <<>> THEN seen
    ELSE Dedupe(IF Head(items) \in Range(seen) THEN seen ELSE Append(seen, Head(items)),
                Tail(items))

\* the profile columns updateUserProfile of pipeline-supabase.ts computes
\* from the profile row it fetched
computeProfileUpdate(profile, parsed) ==
    LET themeCount == IncrementAll(profile.theme_count, parsed.theme)
        vibeCount == IncrementAll(profile.vibe_count, parsed.vibe)
        bucketCount == IncrementAll(profile.bucket_count, parsed.bucket)
        sortedVibes == SortByCountDesc(vibeCount)
    IN  [top_themes |-> TopKeys(SortByCountDesc(themeCount), 3),
         theme_count |-> themeCount,
         dominant_vibe |-> IF Len(sortedVibes) > 0 THEN sortedVibes[1].key ELSE "",
         vibe_count |-> vibeCount,
         bucket_count |-> bucketCount,
         trait_pool |-> Dedupe(<<>>, profile.trait_pool \o parsed.persona_trait),
         last_theme |-> IF Len(parsed.theme) > 0 THEN parsed.theme[1] ELSE ""]

carryInResponses ==
    << "(3 I notice this theme surfacing again",
       "{6 This feels familiar from before",
       "{0 Building on what you shared earlier",
       "(A You keep circling back to this",
       "{D I see the connection to yesterday" >>

joyResponses ==
    << "* What lovely energy you bring today!",
       "(J Your joy shines through beautifully",
       "{K I can feel your positive spirit",
       "(M Such beautiful emotions to share",
       "(N Your happiness is contagious!" >>

supportResponses ==
    << "[D I hear the weight you're carrying",
       "{O You're not alone in this feeling",
       "(Q Take a gentle breath with me",
       "{U_ Let's sit with this together",
       "{V I understand this feels heavy" >>

workResponses ==
    << "=_ Work-life balance is so important",
       "(A Career thoughts deserve attention",
       "{X Professional growth matters deeply",
       "(4 Building your path mindfully",
       "{Z Your career journey is unique" >>

generalResponses ==
    << "(8 Thank you for sharing with me",
       "{$ I appreciate your openness",
       "(% Your thoughts matter deeply",
       "[& Grateful you're here today",
       "() What a gift to hear from you" >>

experiencedJoyResponses ==
    << "(: Your growth journey amazes me",
       "+ You've come so far in this space",
       "(; I love seeing your evolution",
       "{< Your progress is inspiring",
       "(> You're blooming beautifully" >>

experiencedSupportResponses ==
    << "[? Remember your inner strength",
       "{2 You've weathered storms before",
       "(3 Riding these waves together",
       "(A Trust your resilient spirit",
       "{@ Pressure creates diamonds" >>

relationshipResponses ==
    << "{7 Connections shape our hearts",
       "[9 Relationships are life's gifts",
       "{] Love in all its forms heals",
       "(J You nurture beautiful bonds",
       "(^ Home is where the heart grows" >>

experiencedGeneralResponses ==
    << "(Q Your wisdom deepens each day",
       "{| I admire your continued courage",
       "(3 Flowing through life's chapters",
       "{K Your journey inspires me daily",
       "(} Each story you share matters" >>

\* the number of entries from which a user counts as experienced
ExperiencedFrom == 100

\* puzzlePrefix + response of generateEmpathicReply of pipeline-supabase.ts,
\* before the character limit; randomIndex is Math.floor(Math.random() * 5)
chosenReply(parsed, isFirstEntry, carryIn, entryCount, randomIndex) ==
    LET themes == Range(parsed.theme)
        vibes == Range(parsed.vibe)
        puzzlePrefix == IF entryCount >= ExperiencedFrom THEN "[# " ELSE ""
        table ==
            IF carryIn THEN carryInResponses
            ELSE IF isFirstEntry
            THEN IF "happy" \in vibes \/ "excited" \in vibes THEN joyResponses
                 ELSE IF "anxious" \in vibes \/ "frustrated" \in vibes THEN supportResponses
                 ELSE IF "work-life balance" \in themes THEN workResponses
                 ELSE generalResponses
            ELSE IF "happy" \in vibes \/ "motivated" \in vibes THEN experiencedJoyResponses
                 ELSE IF "anxious" \in vibes \/ "exhausted" \in vibes
                    THEN experiencedSupportResponses
                 ELSE IF "relationships" \in themes \/ "family" \in themes
                    THEN relationshipResponses
                 ELSE experiencedGeneralResponses
    IN  puzzlePrefix \o table[randomIndex + 1]

\* generateEmpathicReplySupabase with the limit 35 in place of 55
generateEmpathicReplySupabaseShort(parsed, isFirstEntry, carryIn, entryCount, randomIndex) ==
    LET response == chosenReply(parsed, isFirstEntry, carryIn, entryCount, randomIndex)
    IN  IF Len(response) > 35
        THEN SubSeq(response, 1, 32) \o "..."
        ELSE response

\* Step 11 EMPATHIC_REPLY of pipeline-supabase.ts
generateEmpathicReplySupabase(parsed, isFirstEntry, carryIn, entryCount, randomIndex) ==
    LET response == chosenReply(parsed, isFirstEntry, carryIn, entryCount, randomIndex)
    IN  IF Len(response) > ReplyLimit
        THEN SubSeq(response, 1, 52) \o "..."
        ELSE response

(***************************************************************************)
(* The database.  user_profiles and diary_entries are sequences of rows.   *)
(* Row level security is enabled on both tables (part_006:162-181), and    *)
(* every request of the services is taken to carry the session of the user *)
(* it is made for: the policies then admit SELECT, INSERT and UPDATE of    *)
(* the rows of that user, and no policy admits DELETE.  user_id refers to  *)
(* an account of auth.users in both tables, ON DELETE CASCADE              *)
(* (part_006:90,109).  registerUser writes with the key of the service     *)
(* role, which no policy restricts.                                        *)
(***************************************************************************)
Null == [null |-> TRUE]

Undefined == [dot |-> 0, magnitudeA |-> 0, magnitudeB |-> 0]

ZeroSimilarity == [dot |-> 0, magnitudeA |-> 1, magnitudeB |-> 1]

\* .from('user_profiles') ... .eq('user_id', userId)
ProfileRows(userId) == SelectSeq(user_profiles, LAMBDA r : r.user_id = userId)

\* .from('diary_entries') ... .eq('user_id', userId)
UserEntries(userId) == SelectSeq(diary_entries, LAMBDA r : r.user_id = userId)

\* UserProfileService.getProfile: .single() yields the row when exactly one
\* matches, and error PGRST116 (answered by null) otherwise
getProfile(userId) ==
    IF Len(ProfileRows(userId)) = 1 THEN ProfileRows(userId)[1] ELSE Null

\* the row UserProfileService.createProfile inserts, and registerUser with
\* the same columns: full_name is fullName || '' (fullName is "" when the
\* caller gives none), and avatar_url, which the insert does not name, is
\* NULL.  The columns full_name and avatar_url may be NULL: they hold <<>>
\* for NULL and <<text>> for a text.
newProfileRow(userId, email, fullName) ==
    [user_id |-> userId, email |-> email, full_name |-> <<fullName>>,
     avatar_url |-> <<>>,
     top_themes |-> <<>>, theme_count |-> <<>>, dominant_vibe |-> "",
     vibe_count |-> <<>>, bucket_count |-> <<>>, trait_pool |-> <<>>,
     last_theme |-> ""]

\* table user_profiles without UNIQUE(user_id): any row may be inserted
uniqueUserIdDropped(userId) == TRUE

\* UNIQUE(user_id) of table user_profiles: may a row for userId be inserted
uniqueUserId(userId) == Len(ProfileRows(userId)) = 0

\* A JSONB column does not keep the key order of the object written to it:
\* PostgreSQL stores the keys of an object sorted by length and, at equal
\* length, bytewise, and answers them in that order.  jsonb(counter) is the
\* object a JSONB column answers for the object written to it.  ByteOrder
\* holds the characters a counter key is made of (space, hyphen, digits,
\* letters and underscore) in the order of their codes.
RECURSIVE jsonb(_)
jsonb(counter) ==
    LET ByteOrder == " -0123456789ABCDEFGHIJKLMNOPQRSTUVWXYZ_abcdefghijklmnopqrstuvwxyz"
        ByteOf(c) == CHOOSE i \in 1..Len(ByteOrder) : At(ByteOrder, i) = c
        Differ(a, b) == {i \in 1..Len(a) : At(a, i) # At(b, i)}
        First(a, b) == CHOOSE i \in Differ(a, b) : \A j \in Differ(a, b) : i <= j
        KeyBefore(a, b) ==
            \/ Len(a) < Len(b)
            \/ /\ Len(a) = Len(b)
               /\ Differ(a, b) # {}
               /\ ByteOf(At(a, First(a, b))) < ByteOf(At(b, First(a, b)))
        Insert(sorted, last) ==
            SelectSeq(sorted, LAMBDA e : KeyBefore(e.key, last.key))
                \o <<last>>
                \o SelectSeq(sorted, LAMBDA e : ~KeyBefore(e.key, last.key))
    IN  IF counter = <<>> THEN <<>>
        ELSE CHOOSE stored \in
                {Insert(sorted, last) :
                    sorted \in {jsonb(SubSeq(counter, 1, Len(counter) - 1))},
                    last \in {counter[Len(counter)]}} : TRUE

\* .update(updates).eq('user_id', userId): updates is a Partial<UserProfile>;
\* the columns it names are written, a JSONB column in the order it keeps
\* its keys, and the other columns of the row stay as they are.  A value
\* for full_name or avatar_url is <<>> for null, which is written as NULL,
\* and <<text>> for a text.
applyProfileUpdate(rows, userId, updates) ==
    LET written(row, column) ==
            IF column \notin DOMAIN updates THEN row[column]
            ELSE IF column \in {"theme_count", "vibe_count", "bucket_count"}
                 THEN jsonb(updates[column])
            ELSE updates[column]
    IN  [i \in 1..Len(rows) |->
            IF rows[i].user_id = userId
            THEN [user_id |-> written(rows[i], "user_id"),
                  email |-> written(rows[i], "email"),
                  full_name |-> written(rows[i], "full_name"),
                  avatar_url |-> written(rows[i], "avatar_url"),
                  top_themes |-> written(rows[i], "top_themes"),
                  theme_count |-> written(rows[i], "theme_count"),
                  dominant_vibe |-> written(rows[i], "dominant_vibe"),
                  vibe_count |-> written(rows[i], "vibe_count"),
                  bucket_count |-> written(rows[i], "bucket_count"),
                  trait_pool |-> written(rows[i], "trait_pool"),
                  last_theme |-> written(rows[i], "last_theme")]
            ELSE rows[i]]

\* getEntryCount without .eq('user_id', userId)
getEntryCountAllUsers(userId) == Len(diary_entries)

\* UserProfileService.getEntryCount
getEntryCount(userId) == Len(UserEntries(userId))

\* DiaryEntryService.getUserEntries(userId, limit): newest first
getUserEntries(userId, limit) ==
    LET rows == UserEntries(userId)
    IN  [i \in 1..Min(limit, Len(rows)) |-> rows[Len(rows) + 1 - i]]

\* The stored procedure find_similar_entries is not part of the repository.
\* From its arguments: the entries of user_id whose cosine similarity to
\* query_embedding reaches similarity_threshold, at most match_count of them.
find_similar_entries(user_id, query_embedding, similarity_threshold, match_count) ==
    LET matching == SelectSeq(UserEntries(user_id),
                        LAMBDA r : SimAtLeast(cosineSimilarity(query_embedding, r.embedding),
                                              similarity_threshold))
    IN  SubSeq(matching, 1, Min(match_count, Len(matching)))

\* DiaryEntryService.findSimilarEntries: an error answer of the procedure
\* and an exception are both turned into the empty list
findSimilarEntries(userId, embedding, threshold, limit, available) ==
    IF available THEN find_similar_entries(userId, embedding, threshold, limit)
    ELSE <<>>

\* for (const entry of similarEntries) { if (similarity > maxSimilarity) ... }
RECURSIVE maxSimilarityOf(_, _, _)
maxSimilarityOf(embedding, similarEntries, acc) ==
    IF similarEntries = <<>> THEN acc
    ELSE LET similarity == cosineSimilarity(embedding, Head(similarEntries).embedding)
         IN  maxSimilarityOf(embedding, Tail(similarEntries),
                             IF SimLeq(similarity, acc) THEN acc ELSE similarity)

\* parsed.theme.some(theme => recentThemes.includes(theme)) over
\* getUserEntries(userId, 10)
recentThemeOverlap(userId, parsed) ==
    LET recentEntries == getUserEntries(userId, 10)
    IN  \E i \in 1..Len(recentEntries) :
            Range(recentEntries[i].parsed_themes) \cap Range(parsed.theme) # {}

(***************************************************************************)
(* processTranscriptWithSupabase.  A call advances by one step for every   *)
(* storage request it awaits; between two requests of one call the         *)
(* requests of other calls may be served.                                  *)
(***************************************************************************)
Calls == 1..MaxSupaCalls

Users == {"u1", "u2"}

SupaTranscripts == {"Work makes me anxious", "happy at work"}

\* values of Math.floor(Math.random() * 5)
RandomIndexes == {0, 4}

IdleCall ==
    [pc |-> "idle", userId |-> "", transcript |-> "", embedding |-> <<>>,
     parsed |-> Null, available |-> TRUE, carryIn |-> FALSE,
     maxSimilarity |-> ZeroSimilarity, overlapAtSearch |-> FALSE,
     updates |-> Null, entryCount |-> 0, responseText |-> "", entryId |-> 0,
     before |-> Null]

\* Steps 1-3, up to the request of Step 4, for a user who is signed in: the
\* route answers 401 to any other request.  before keeps what the tables
\* hold for the user as the call starts: the entries, and the profile row in
\* the columns a call writes (address, name and picture are blanked).
SupaStart(c, transcript, userId) ==
    /\ userId \in auth.users
    /\ calls[c].pc = "idle"
    /\ IF c = 1 THEN TRUE ELSE calls[c - 1].pc # "idle"
    /\ calls' = [calls EXCEPT ![c] =
            [IdleCall EXCEPT
                !.pc = "findSimilar",
                !.userId = userId,
                !.transcript = transcript,
                !.embedding = createEmbedding(transcript),
                !.parsed = parseEntrySupabase(transcript),
                !.before = [profiles |->
                                [i \in 1..Len(ProfileRows(userId)) |->
                                    [ProfileRows(userId)[i] EXCEPT
                                        !.email = "", !.full_name = "",
                                        !.avatar_url = <<>>]],
                            entries |-> UserEntries(userId),
                            rows |-> Len(diary_entries)]]]
    /\ UNCHANGED <<user_profiles, diary_entries, deleted_entries, failures, auth>>
    /\ UNCHANGED <<memVars, auxVars>>

\* Step 4: the similarity search is answered; Step 5 asks for the profile
SupaFindSimilar(c, available) ==
    /\ calls[c].pc = "findSimilar"
    /\ LET call == calls[c]
           similarEntries == findSimilarEntries(call.userId, call.embedding, Threshold, 5,
                                                available)
           maxSim == maxSimilarityOf(call.embedding, similarEntries, ZeroSimilarity)
           carryIn == IF Len(similarEntries) > 0 THEN SimAtLeast(maxSim, Threshold)
                      ELSE FALSE
       IN  calls' = [calls EXCEPT ![c] =
               [call EXCEPT !.pc = "getProfile",
                            !.available = available,
                            !.carryIn = carryIn,
                            !.maxSimilarity = maxSim,
                            !.overlapAtSearch = recentThemeOverlap(call.userId, call.parsed)]]
    /\ UNCHANGED <<user_profiles, diary_entries, deleted_entries, failures, auth>>
    /\ UNCHANGED <<memVars, auxVars>>

\* updateUserProfile: getProfile is answered
SupaGetProfile(c) ==
    /\ calls[c].pc = "getProfile"
    /\ LET call == calls[c]
           profile == getProfile(call.userId)
       IN  calls' = [calls EXCEPT ![c] =
               IF profile = Null
               THEN [call EXCEPT !.pc = "createProfile"]
               ELSE [call EXCEPT !.pc = "updateProfile",
                                 !.updates = computeProfileUpdate(profile, call.parsed)]]
    /\ UNCHANGED <<user_profiles, diary_entries, deleted_entries, failures, auth>>
    /\ UNCHANGED <<memVars, auxVars>>

\* updateUserProfile: createProfile is answered, with the new row, with a
\* violation of UNIQUE(user_id), or with a violation of the reference to
\* auth.users when the account has been deleted meanwhile
SupaCreateProfile(c) ==
    /\ calls[c].pc = "createProfile"
    /\ LET call == calls[c]
           row == newProfileRow(call.userId, "user@example.com", "")
       IN  IF uniqueUserId(call.userId) /\ call.userId \in auth.users
           THEN /\ user_profiles' = Append(user_profiles, row)
                /\ calls' = [calls EXCEPT ![c] =
                       [call EXCEPT !.pc = "updateProfile",
                                    !.updates = computeProfileUpdate(row, call.parsed)]]
           ELSE /\ calls' = [calls EXCEPT ![c] = [call EXCEPT !.pc = "threw"]]
                /\ UNCHANGED user_profiles
    /\ UNCHANGED <<diary_entries, deleted_entries, failures, auth>>
    /\ UNCHANGED <<memVars, auxVars>>

\* updateUserProfile: updateProfile is answered; .single() fails unless
\* exactly one row was updated
SupaUpdateProfile(c) ==
    /\ calls[c].pc = "updateProfile"
    /\ LET call == calls[c]
       IN  IF Len(ProfileRows(call.userId)) = 1
           THEN /\ user_profiles' = applyProfileUpdate(user_profiles, call.userId, call.updates)
                /\ calls' = [calls EXCEPT ![c] = [call EXCEPT !.pc = "getEntryCount"]]
           ELSE /\ calls' = [calls EXCEPT ![c] = [call EXCEPT !.pc = "threw"]]
                /\ UNCHANGED user_profiles
    /\ UNCHANGED <<diary_entries, deleted_entries, failures, auth>>
    /\ UNCHANGED <<memVars, auxVars>>

\* Steps 6 and 7: getEntryCount is answered and the reply is chosen
SupaGetEntryCount(c, randomIndex) ==
    /\ calls[c].pc = "getEntryCount"
    /\ LET call == calls[c]
           entryCount == getEntryCount(call.userId)
           isFirstEntry == entryCount = 0
       IN  calls' = [calls EXCEPT ![c] =
               [call EXCEPT !.pc = "createEntry",
                            !.entryCount = entryCount,
                            !.responseText =
                                generateEmpathicReplySupabase(call.parsed, isFirstEntry,
                                    call.carryIn, entryCount, randomIndex)]]
    /\ UNCHANGED <<user_profiles, diary_entries, deleted_entries, failures, auth>>
    /\ UNCHANGED <<memVars, auxVars>>

\* Step 8: createEntry is answered and the call returns; the insert is
\* refused, and the call throws, when the account has been deleted
\* meanwhile.  The columns filled from extractMetaData are not read again
\* and are left out.
SupaCreateEntry(c) ==
    /\ calls[c].pc = "createEntry"
    /\ LET call == calls[c]
           id == Len(diary_entries) + Cardinality(deleted_entries) + 1
       IN  IF call.userId \in auth.users
           THEN /\ diary_entries' = Append(diary_entries,
                       [id |-> id, user_id |-> call.userId, raw_text |-> call.transcript,
                        embedding |-> call.embedding,
                        parsed_themes |-> call.parsed.theme,
                        parsed_vibes |-> call.parsed.vibe,
                        parsed_intent |-> call.parsed.intent,
                        parsed_subtext |-> call.parsed.subtext,
                        parsed_persona_traits |-> call.parsed.persona_trait,
                        parsed_buckets |-> call.parsed.bucket,
                        carry_in |-> call.carryIn,
                        carry_in_similarity |-> IF call.carryIn THEN call.maxSimilarity
                                                ELSE Undefined,
                        response_text |-> call.responseText])
                /\ calls' = [calls EXCEPT ![c] =
                       [call EXCEPT !.pc = "returned", !.entryId = id]]
           ELSE /\ calls' = [calls EXCEPT ![c] = [call EXCEPT !.pc = "threw"]]
                /\ UNCHANGED diary_entries
    /\ UNCHANGED <<user_profiles, deleted_entries, failures, auth>>
    /\ UNCHANGED <<memVars, auxVars>>

\* the storage request a call awaits fails: the service throws, and so does
\* processTranscriptWithSupabase
SupaFail(c) ==
    /\ calls[c].pc \in {"getProfile", "createProfile", "updateProfile",
                       "getEntryCount", "createEntry"}
    /\ failures < MaxFailures
    /\ failures' = failures + 1
    /\ calls' = [calls EXCEPT ![c] = [calls[c] EXCEPT !.pc = "threw"]]
    /\ UNCHANGED <<user_profiles, diary_entries, deleted_entries, auth>>
    /\ UNCHANGED <<memVars, auxVars>>

\* DiaryEntryService.deleteEntry, for a user who is signed in:
\* .delete().eq('id', entryId).eq('user_id', userId) deletes the rows that
\* the policies of the table let the request delete.  No policy of
\* diary_entries is for DELETE (part_006:169-172), so no row is deleted; the
\* request is answered without an error and deleteEntry answers true.
deleteEntry(entryId, userId) ==
    /\ userId \in auth.users
    /\ UNCHANGED <<user_profiles, diary_entries, deleted_entries, calls, failures, auth>>
    /\ UNCHANGED <<memVars, auxVars>>

\* registerUser(email, password, fullName) up to the insert (lines 27-50): the
\* sign-up is answered with the new account userId, which can sign in from
\* then on (a sign-up that is refused throws before anything is written).
\* fullName is "" when the caller gives none.
registerUser(userId, email, fullName) ==
    /\ userId \notin auth.users \cup auth.deleted
    /\ auth' = [auth EXCEPT
            !.users = @ \cup {userId},
            !.registration = [pc |-> "insert", userId |-> userId, email |-> email,
                              fullName |-> fullName]]
    /\ UNCHANGED <<user_profiles, diary_entries, deleted_entries, calls, failures>>
    /\ UNCHANGED <<memVars, auxVars>>

\* registerUser at the insert of the profile row (lines 53-68): the request
\* is answered.  Answered "ok", the row is inserted with the address and the
\* name of the sign-up and registerUser returns, unless the table has a row
\* of the account (UNIQUE(user_id): a call made for the new user has created
\* it meanwhile): the insert is then answered with an error, as it is with
\* answer "error", and registerUser goes on to have the account deleted.  A
\* request that rejects ("throw") leaves registerUser through the catch block
\* of lines 81-84, with the account kept and no row written.
registerUserInsert(answer) ==
    /\ auth.registration.pc = "insert"
    /\ LET userId == auth.registration.userId
       IN  IF answer = "throw"
           THEN /\ auth' = [auth EXCEPT !.registration.pc = "threw"]
                /\ UNCHANGED user_profiles
           ELSE IF answer = "ok" /\ uniqueUserId(userId)
           THEN /\ user_profiles' = Append(user_profiles,
                       newProfileRow(userId, auth.registration.email,
                                     auth.registration.fullName))
                /\ auth' = [auth EXCEPT !.registration.pc = "returned"]
           ELSE /\ auth' = [auth EXCEPT !.registration.pc = "deleteUser"]
                /\ UNCHANGED user_profiles
    /\ UNCHANGED <<diary_entries, deleted_entries, calls, failures>>
    /\ UNCHANGED <<memVars, auxVars>>

\* registerUser at supabaseAdmin.auth.admin.deleteUser (lines 69-72): the
\* request is answered and registerUser throws.  The account is deleted, and
\* ON DELETE CASCADE takes the profile row and the entries of the account
\* away with it; a request that fails or rejects leaves the account and its
\* rows.
deleteUser(fails) ==
    /\ auth.registration.pc = "deleteUser"
    /\ LET userId == auth.registration.userId
       IN  IF fails
           THEN /\ auth' = [auth EXCEPT !.registration.pc = "threw"]
                /\ UNCHANGED <<user_profiles, diary_entries, deleted_entries>>
           ELSE /\ user_profiles' = SelectSeq(user_profiles, LAMBDA r : r.user_id # userId)
                /\ diary_entries' = SelectSeq(diary_entries, LAMBDA r : r.user_id # userId)
                /\ deleted_entries' = deleted_entries
                                         \cup {r \in Range(diary_entries) : r.user_id = userId}
                /\ auth' = [auth EXCEPT !.users = @ \ {userId},
                                        !.deleted = @ \cup {userId},
                                        !.registration.pc = "threw"]
    /\ UNCHANGED <<calls, failures>>
    /\ UNCHANGED <<memVars, auxVars>>

\* UserProfileService.updateProfile(userId, updates) as the route PUT /profile
\* calls it, for the signed-in user and with the full_name and the avatar_url
\* of the request body, those of the two that the body holds: .single()
\* fails unless exactly one row was updated, and the route answers the error
updateProfile(userId, updates) ==
    /\ userId \in auth.users
    /\ IF Len(ProfileRows(userId)) = 1
       THEN user_profiles' = applyProfileUpdate(user_profiles, userId, updates)
       ELSE UNCHANGED user_profiles
    /\ Cardinality({r \in Range(user_profiles') : r.avatar_url # <<>>}) <= MaxEdited
    /\ UNCHANGED <<diary_entries, deleted_entries, calls, failures, auth>>
    /\ UNCHANGED <<memVars, auxVars>>

\* the caller has the result of call c; its place takes the next call
SupaDone(c) ==
    /\ calls[c].pc = "returned"
    /\ calls' = [calls EXCEPT ![c] = IdleCall]
    /\ UNCHANGED <<user_profiles, diary_entries, deleted_entries, failures, auth>>
    /\ UNCHANGED <<memVars, auxVars>>

(***************************************************************************)
(* One user submitting one text again and again, each call awaited before  *)
(* the next is made, until MaxExperiencedEntries entries are stored.       *)
(***************************************************************************)
MaxExperiencedEntries == 101

ExperiencedStart ==
    /\ Len(diary_entries) < MaxExperiencedEntries
    /\ SupaStart(1, "happy at work", "u1")

(***************************************************************************)
(* generateEmpathicReply of pipeline-supabase.ts called on its own, for    *)
(* the parsed entries of texts that between them select every reply table, *)
(* both flags, entry counts on both sides of 0 and of 100, and every       *)
(* random index.                                                           *)
(***************************************************************************)
ReplyTranscripts ==
    {"happy at work", "Work makes me anxious", "I am exhausted",
     "Mom will help plan my job", "My friend asked my doctor about money", ""}

ReplyCounts == {0, 1, 99, 100, 101}

NoReply ==
    [parsed |-> Null, isFirstEntry |-> FALSE, carryIn |-> FALSE, entryCount |-> 0,
     randomIndex |-> 0, returned |-> FALSE, response |-> ""]

ReplyArguments ==
    {[NoReply EXCEPT !.parsed = parseEntrySupabase(t), !.isFirstEntry = f, !.carryIn = ci,
                     !.entryCount = n, !.randomIndex = r] :
        t \in ReplyTranscripts, f \in BOOLEAN, ci \in BOOLEAN, n \in ReplyCounts,
        r \in 0..4}

GenerateReply ==
    /\ reply # NoReply
    /\ ~reply.returned
    /\ reply' = [reply EXCEPT
            !.returned = TRUE,
            !.response = generateEmpathicReplySupabase(reply.parsed, reply.isFirstEntry,
                             reply.carryIn, reply.entryCount, reply.randomIndex)]
    /\ UNCHANGED <<memVars, supaVars, compared, voiceVars>>

(***************************************************************************)
(* cosineSimilarity called on its own, for vectors of lengths 0 to 3, of   *)
(* zero and of non-zero magnitude.                                         *)
(***************************************************************************)
CosineVectors ==
    {<<>>, <<0>>, <<2>>, <<-1>>, <<0, 0>>, <<3, 4>>, <<4, -3>>, <<0, 5>>,
     <<0, 0, 0>>, <<1, 2, 2>>, <<2, 0, -1>>}

NoSimilarity == [a |-> <<>>, b |-> <<>>, returned |-> FALSE, value |-> [dot |-> 0, magnitudeA |-> 1, magnitudeB |-> 1]]

Compare ==
    /\ ~compared.returned
    /\ compared' = [compared EXCEPT
            !.returned = TRUE,
            !.value = cosineSimilarity(compared.a, compared.b)]
    /\ UNCHANGED <<memVars, supaVars, reply, voiceVars>>

(***************************************************************************)
(* VoiceRecorder (part_003:585-862).  The recorder runs on one JavaScript  *)
(* thread: every handler below runs to completion, and the only places     *)
(* where another handler can come in between are the two awaits, of        *)
(* getUserMedia in startRecording and of processAudioBlob in               *)
(* processTranscript.  The callbacks of the owner are taken to return      *)
(* normally.  recordingDuration and the interval that counts it are read   *)
(* by no handler and are left out.                                         *)
(***************************************************************************)
MaxStops == 2               \* stopRecording calls
MaxStarts == 2              \* startRecording calls
MaxDestroys == 1            \* destroy calls

\* part_003:792 the text processAudioBlob resolves with
AudioPlaceholder ==
    "Audio processing not implemented in demo mode. Please use text input or ensure speech recognition is working."

NoSpeechDetected == "No speech detected. Please try again."

\* what the speech recognition may have heard: finalTranscript + interimTranscript
RecognizedTexts == {"", " ", " so  tired "}

\* String.prototype.replace(/\s+/g, ' ') on s[i..j]: a run of white space becomes
\* one space
RECURSIVE CollapseBetween(_, _, _)
CollapseBetween(s, i, j) ==
    IF i > j THEN ""
    ELSE IF i = j
         THEN IF At(s, i) \notin WhiteSpace THEN At(s, i)
              ELSE IF i > 1 /\ At(s, i - 1) \in WhiteSpace THEN "" ELSE " "
         ELSE LET m == (i + j) \div 2
              IN  CollapseBetween(s, i, m) \o CollapseBetween(s, m + 1, j)

cleanTranscript(transcript) ==
    LET trimmed == trim(transcript)
    IN  trim(CollapseBetween(trimmed, 1, Len(trimmed)))

\* a callback of the owner: from is the number of the stopRecording call that
\* made it, itself or through processTranscript, and 0 for any other caller
VoiceCallback(kind, from, text) == [kind |-> kind, from |-> from, text |-> text]

\* the log after one more callback
Called(log, callback) == log (+) SetToBag({callback})

\* the try block of processTranscript after line 757, without its finally
transcriptOutcomeNoFinally(rec, stop, finalTranscript) ==
    LET cleaned == cleanTranscript(finalTranscript)
    IN  IF trim(cleaned) # ""
        THEN [recorder |-> rec,
              callback |-> VoiceCallback("onTranscriptReady", stop, cleaned)]
        ELSE [recorder |-> [rec EXCEPT !.error = <<NoSpeechDetected>>],
              callback |-> VoiceCallback("onError", stop, NoSpeechDetected)]

\* processTranscript from line 760 on: the transcript is cleaned, the owner is
\* called once, and the finally block clears isProcessing
transcriptOutcome(rec, stop, finalTranscript) ==
    LET cleaned == cleanTranscript(finalTranscript)
    IN  IF trim(cleaned) # ""
        THEN [recorder |-> [rec EXCEPT !.isProcessing = FALSE],
              callback |-> VoiceCallback("onTranscriptReady", stop, cleaned)]
        ELSE [recorder |-> [rec EXCEPT !.isProcessing = FALSE,
                                       !.error = <<NoSpeechDetected>>],
              callback |-> VoiceCallback("onError", stop, NoSpeechDetected)]

\* the recorder after construction (lines 603-648) in a browser that has the
\* speech recognition (supported) and in one that has not: there recognition
\* stays null and error holds the message of line 645.  error is <<>> for null
\* and <<message>> otherwise.  mediaRecorder and recognition are the states of
\* the browser objects the fields of these names refer to, starting is the
\* number of startRecording calls waiting for getUserMedia, orphans the number
\* of MediaRecorders that still record and that this.mediaRecorder no longer
\* refers to, stopEvents the number of stop events not yet delivered to onstop.
NewRecorder(supported) ==
    [isRecording |-> FALSE, isProcessing |-> FALSE, audioBlob |-> FALSE,
     transcript |-> "",
     error |-> IF supported THEN <<>>
               ELSE <<"Speech recognition not supported in this browser">>,
     mediaRecorder |-> "null",
     recognition |-> IF supported THEN "idle" ELSE "null",
     starting |-> 0, started |-> 0, orphans |-> 0, stopEvents |-> 0, stops |-> 0,
     destroys |-> 0]

\* startRecording up to its await: lines 654-661
startRecording ==
    /\ recorder.started < MaxStarts
    /\ recorder' = [recorder EXCEPT !.error = <<>>, !.transcript = "",
                                    !.starting = @ + 1, !.started = @ + 1]
    /\ UNCHANGED <<memVars, supaVars, reply, compared, timers, callbackLog>>

\* startRecording after getUserMedia resolved: lines 670-701.  The new
\* MediaRecorder takes the place of the one this.mediaRecorder referred to, and
\* no guard keeps a second call out while the first records: that recorder goes
\* on recording, with the onstop handler of line 680.  recognition.start() is
\* called only when there is a recognition (line 697); it throws when the
\* recognition has been started and has not ended, and the catch block reports
\* it; isRecording is true by then.
MediaGranted ==
    /\ recorder.starting > 0
    /\ LET recording == [recorder EXCEPT !.starting = @ - 1,
                                         !.orphans = IF recorder.mediaRecorder = "recording"
                                                     THEN @ + 1 ELSE @,
                                         !.mediaRecorder = "recording",
                                         !.isRecording = TRUE]
       IN  IF recorder.recognition = "null"
           THEN /\ recorder' = recording
                /\ UNCHANGED callbackLog
           ELSE IF recorder.recognition = "idle"
           THEN /\ recorder' = [recording EXCEPT !.recognition = "listening"]
                /\ UNCHANGED callbackLog
           ELSE /\ recorder' = [recording EXCEPT
                       !.error = <<"Failed to start recording: InvalidStateError">>]
                /\ callbackLog' = Called(callbackLog, VoiceCallback("onError", 0,
                       "Failed to start recording: InvalidStateError"))
    /\ UNCHANGED <<memVars, supaVars, reply, compared, timers>>

\* startRecording after getUserMedia resolved, in a browser whose MediaRecorder
\* does not record 'audio/webm;codecs=opus': the constructor of line 671 throws,
\* this.mediaRecorder keeps what it referred to, and the catch block reports it
RecorderRefused ==
    /\ recorder.starting > 0
    /\ recorder' = [recorder EXCEPT !.starting = @ - 1,
                        !.error = <<"Failed to start recording: NotSupportedError">>]
    /\ callbackLog' = Called(callbackLog, VoiceCallback("onError", 0,
                          "Failed to start recording: NotSupportedError"))
    /\ UNCHANGED <<memVars, supaVars, reply, compared, timers>>

\* startRecording when getUserMedia rejects: lines 703-707
MediaDenied ==
    /\ recorder.starting > 0
    /\ recorder' = [recorder EXCEPT !.starting = @ - 1,
                        !.error = <<"Failed to start recording: NotAllowedError">>]
    /\ callbackLog' = Called(callbackLog, VoiceCallback("onError", 0,
                          "Failed to start recording: NotAllowedError"))
    /\ UNCHANGED <<memVars, supaVars, reply, compared, timers>>

\* recognition.onresult: lines 621-636
RecognitionResult(text) ==
    /\ recorder.recognition \in {"listening", "stopping"}
    /\ recorder.transcript # text
    /\ recorder' = [recorder EXCEPT !.transcript = text]
    /\ UNCHANGED <<memVars, supaVars, reply, compared, timers, callbackLog>>

\* recognition.onerror: lines 638-642.  An error ends the session: no result and
\* no other error follows it, only the end
RecognitionError ==
    /\ recorder.recognition \in {"listening", "stopping"}
    /\ recorder' = [recorder EXCEPT !.recognition = "failed",
                        !.error = <<"Speech recognition error: no-speech">>]
    /\ callbackLog' = Called(callbackLog, VoiceCallback("onError", 0,
                          "Speech recognition error: no-speech"))
    /\ UNCHANGED <<memVars, supaVars, reply, compared, timers>>

\* the recognition ends: after stop() was called on it, after an error, or on
\* its own
RecognitionEnd ==
    /\ recorder.recognition \notin {"null", "idle"}
    /\ recorder' = [recorder EXCEPT !.recognition = "idle"]
    /\ UNCHANGED <<memVars, supaVars, reply, compared, timers, callbackLog>>

\* the microphone track ends while the recorder records: the MediaRecorder
\* becomes inactive and fires its stop event
TrackEnded ==
    /\ recorder.mediaRecorder = "recording"
    /\ recorder' = [recorder EXCEPT !.mediaRecorder = "inactive", !.stopEvents = @ + 1]
    /\ UNCHANGED <<memVars, supaVars, reply, compared, timers, callbackLog>>

\* the track of a MediaRecorder that this.mediaRecorder no longer refers to
\* ends: nothing else stops that recorder, and its stop event goes to the
\* onstop handler of line 680 as well
OrphanTrackEnded ==
    /\ recorder.orphans > 0
    /\ recorder' = [recorder EXCEPT !.orphans = @ - 1, !.stopEvents = @ + 1]
    /\ UNCHANGED <<memVars, supaVars, reply, compared, timers, callbackLog>>

\* mediaRecorder.onstop: lines 680-683
RecorderStopped ==
    /\ recorder.stopEvents > 0
    /\ recorder' = [recorder EXCEPT !.stopEvents = @ - 1, !.audioBlob = TRUE]
    /\ UNCHANGED <<memVars, supaVars, reply, compared, timers, callbackLog>>

\* stopRecording (lines 713-744) with the part of processTranscript that runs
\* inside the call (lines 749-757, and the rest when nothing is awaited).
\* MediaRecorder.stop() on an inactive recorder throws in some browsers and
\* returns in others: throws chooses.
stopRecording(throws) ==
    /\ recorder.stops < MaxStops
    /\ LET stop == recorder.stops + 1
           counted == [recorder EXCEPT !.stops = stop]
           stopsRecorder == recorder.mediaRecorder # "null" /\ recorder.isRecording
       IN  IF stopsRecorder /\ recorder.mediaRecorder = "inactive" /\ throws
           THEN /\ recorder' = [counted EXCEPT
                       !.error = <<"Failed to stop recording: InvalidStateError">>]
                /\ callbackLog' = Called(callbackLog, VoiceCallback("onError", stop,
                       "Failed to stop recording: InvalidStateError"))
                /\ UNCHANGED timers
           ELSE LET stopped == [counted EXCEPT
                        !.mediaRecorder = IF stopsRecorder THEN "inactive" ELSE @,
                        !.stopEvents = IF stopsRecorder /\ recorder.mediaRecorder = "recording"
                                       THEN @ + 1 ELSE @,
                        !.recognition = IF @ = "listening" THEN "stopping" ELSE @,
                        !.isRecording = FALSE,
                        !.isProcessing = TRUE]
                IN  IF stopped.transcript = "" /\ stopped.audioBlob
                    THEN /\ recorder' = stopped
                         /\ timers' = timers \cup {stop}
                         /\ UNCHANGED callbackLog
                    ELSE LET outcome == transcriptOutcome(stopped, stop, stopped.transcript)
                         IN  /\ recorder' = outcome.recorder
                             /\ callbackLog' = Called(callbackLog, outcome.callback)
                             /\ UNCHANGED timers
    /\ UNCHANGED <<memVars, supaVars, reply, compared>>

\* the timer of processAudioBlob (lines 791-793) fires and processTranscript
\* goes on from line 756
AudioProcessed(stop) ==
    /\ stop \in timers
    /\ LET outcome == transcriptOutcome(recorder, stop, AudioPlaceholder)
       IN  /\ recorder' = outcome.recorder
           /\ callbackLog' = Called(callbackLog, outcome.callback)
    /\ timers' = timers \ {stop}
    /\ UNCHANGED <<memVars, supaVars, reply, compared>>

\* destroy (lines 849-862): the recorder and the recognition are stopped as in
\* stopRecording, but isRecording is left as it is, nothing is caught and no
\* callback is made.  MediaRecorder.stop() on an inactive recorder throws in
\* some browsers: the exception leaves destroy before the recognition is stopped.
destroy(throws) ==
    /\ recorder.destroys < MaxDestroys
    /\ LET counted == [recorder EXCEPT !.destroys = @ + 1]
           stopsRecorder == recorder.mediaRecorder # "null" /\ recorder.isRecording
       IN  IF stopsRecorder /\ recorder.mediaRecorder = "inactive" /\ throws
           THEN recorder' = counted
           ELSE recorder' = [counted EXCEPT
                    !.mediaRecorder = IF stopsRecorder THEN "inactive" ELSE @,
                    !.stopEvents = IF stopsRecorder /\ recorder.mediaRecorder = "recording"
                                   THEN @ + 1 ELSE @,
                    !.recognition = IF @ = "listening" THEN "stopping" ELSE @]
    /\ UNCHANGED <<memVars, supaVars, reply, compared, timers, callbackLog>>

\* the specifications of the pipeline have a recorder nobody uses
AuxInit ==
    /\ reply = NoReply /\ compared = NoSimilarity
    /\ recorder = NewRecorder(TRUE) /\ timers = {} /\ callbackLog = EmptyBag

SupaInit ==
    /\ user_profiles = <<>>
    /\ diary_entries = <<>>
    /\ deleted_entries = {}
    /\ calls = [c \in Calls |-> IdleCall]
    /\ failures = 0
    /\ auth = [users |-> {"u1"}, deleted |-> {},
              registration |-> [pc |-> "idle", userId |-> "", email |-> "", fullName |-> ""]]

Init == MemInit /\ SupaInit /\ AuxInit

ExperiencedNext ==
    \/ ExperiencedStart
    \/ SupaFindSimilar(1, TRUE)
    \/ SupaGetProfile(1)
    \/ SupaCreateProfile(1)
    \/ SupaUpdateProfile(1)
    \/ SupaGetEntryCount(1, 0)
    \/ SupaCreateEntry(1)
    \/ SupaDone(1)

ExperiencedSpec == Init /\ [][ExperiencedNext]_vars

ReplyInit ==
    /\ MemInit /\ SupaInit /\ reply \in ReplyArguments /\ compared = NoSimilarity
    /\ recorder = NewRecorder(TRUE) /\ timers = {} /\ callbackLog = EmptyBag

CosineInit ==
    /\ MemInit /\ SupaInit /\ reply = NoReply
    /\ recorder = NewRecorder(TRUE) /\ timers = {} /\ callbackLog = EmptyBag
    /\ compared \in {[NoSimilarity EXCEPT !.a = a, !.b = b] : a \in CosineVectors, b \in CosineVectors}

CosineSpec == CosineInit /\ [][Compare]_vars

VoiceNext ==
    \/ startRecording
    \/ MediaGranted
    \/ RecorderRefused
    \/ MediaDenied
    \/ \E text \in RecognizedTexts : RecognitionResult(text)
    \/ RecognitionError
    \/ RecognitionEnd
    \/ TrackEnded
    \/ OrphanTrackEnded
    \/ RecorderStopped
    \/ \E throws \in BOOLEAN : stopRecording(throws)
    \/ \E throws \in BOOLEAN : destroy(throws)
    \/ \E stop \in 1..MaxStops : AudioProcessed(stop)

\* the recorder is constructed in a browser with or without speech recognition
VoiceInit ==
    /\ MemInit /\ SupaInit /\ reply = NoReply /\ compared = NoSimilarity
    /\ recorder \in {NewRecorder(supported) : supported \in BOOLEAN}
    /\ timers = {}
    /\ callbackLog = EmptyBag

VoiceSpec == VoiceInit /\ [][VoiceNext]_vars

\* the step AudioProcessed as timers shows it: a running timer leaves the set.
\* No other action takes a timer out.
TimerFires == \E stop \in timers : timers' = timers \ {stop}

\* a timer that was set fires: the setTimeout of processAudioBlob comes due, and
\* the event loop then runs the rest of processTranscript
VoiceFairSpec == VoiceInit /\ [][VoiceNext]_vars /\ WF_timers(TimerFires)

ReplyNext == GenerateReply

ReplySpec == ReplyInit /\ [][ReplyNext]_vars

Next == Process \/ resetState \/ Tick

Spec == Init /\ [][Next]_vars

AsyncNext == Call \/ Await \/ resetState

AsyncSpec == Init /\ [][AsyncNext]_vars

CarryNext == CarryProcess \/ resetState

CarrySpec == Init /\ [][CarryNext]_vars

MockNext == Mock \/ MockProcess \/ resetState

MockSpec == Init /\ [][MockNext]_vars

WindowNext == WindowProcess \/ resetState

WindowSpec == Init /\ [][WindowNext]_vars

(***************************************************************************)
(* Profiles with more themes than top_themes keeps, in both pipelines: two *)
(* texts with five themes between them, submitted to processTranscript and *)
(* to processTranscriptWithSupabase for one user.                          *)
(***************************************************************************)
MaxThemeCalls == 2
MaxProfileCalls == 2

ThemeTranscripts == {"My friend asked my doctor about money", "Mom will help plan my job"}

ThemeProcess ==
    /\ Len(issuedIds) < MaxThemeCalls
    /\ \E transcript \in ThemeTranscripts, clock \in Clocks(ReadsPerCall) :
          processTranscript(transcript, "0.q1w2e3r4t5y", clock)

ProfileNext ==
    \/ ThemeProcess
    \/ \E c \in Calls, transcript \in ThemeTranscripts :
          c <= MaxProfileCalls /\ SupaStart(c, transcript, "u1")
    \/ \E c \in Calls : SupaFindSimilar(c, TRUE)
    \/ \E c \in Calls : SupaGetProfile(c)
    \/ \E c \in Calls : SupaCreateProfile(c)
    \/ \E c \in Calls : SupaUpdateProfile(c)
    \/ \E c \in Calls : SupaGetEntryCount(c, 0)
    \/ \E c \in Calls : SupaCreateEntry(c)

ProfileSpec == Init /\ [][ProfileNext]_vars

(***************************************************************************)
(* Entries with different persona traits, in both pipelines: two texts     *)
(* neither parser gives a common trait, submitted to processTranscript and *)
(* to processTranscriptWithSupabase for one user.                          *)
(***************************************************************************)
MaxTraitCalls == 3
MaxTraitSupaCalls == 2

TraitTranscripts == {"Mom will help plan my job", "I feel I should think"}

TraitProcess ==
    /\ Len(issuedIds) < MaxTraitCalls
    /\ \E transcript \in TraitTranscripts, clock \in Clocks(ReadsPerCall) :
          processTranscript(transcript, "0.q1w2e3r4t5y", clock)

TraitNext ==
    \/ TraitProcess
    \/ resetState
    \/ \E c \in Calls, transcript \in TraitTranscripts :
          c <= MaxTraitSupaCalls /\ SupaStart(c, transcript, "u1")
    \/ \E c \in Calls : SupaFindSimilar(c, TRUE)
    \/ \E c \in Calls : SupaGetProfile(c)
    \/ \E c \in Calls : SupaCreateProfile(c)
    \/ \E c \in Calls : SupaUpdateProfile(c)
    \/ \E c \in Calls : SupaGetEntryCount(c, 0)
    \/ \E c \in Calls : SupaCreateEntry(c)

TraitSpec == Init /\ [][TraitNext]_vars

SupaNext ==
    \/ \E c \in Calls, transcript \in SupaTranscripts, userId \in Users :
          SupaStart(c, transcript, userId)
    \/ \E c \in Calls, available \in BOOLEAN : SupaFindSimilar(c, available)
    \/ \E c \in Calls : SupaGetProfile(c)
    \/ \E c \in Calls : SupaCreateProfile(c)
    \/ \E c \in Calls : SupaUpdateProfile(c)
    \/ \E c \in Calls, randomIndex \in RandomIndexes : SupaGetEntryCount(c, randomIndex)
    \/ \E c \in Calls : SupaCreateEntry(c)
    \/ \E c \in Calls : SupaFail(c)
    \/ \E entryId \in 1..MaxSupaCalls, userId \in Users : deleteEntry(entryId, userId)
    \* a sign-up with a name, and one without
    \/ \E userId \in Users,
          account \in {[email |-> "ann@example.org", fullName |-> "Ann"],
                       [email |-> "ann@example.org", fullName |-> ""]} :
          registerUser(userId, account.email, account.fullName)
    \/ \E answer \in {"ok", "error", "throw"} : registerUserInsert(answer)
    \/ \E fails \in BOOLEAN : deleteUser(fails)
    \* PUT /profile with a name and a picture, and with null for the picture
    \/ \E userId \in Users,
          updates \in {[full_name |-> <<"Ann">>,
                        avatar_url |-> <<"https://example.org/a.png">>],
                       [avatar_url |-> <<>>]} :
          updateProfile(userId, updates)

SupaSpec == Init /\ [][SupaNext]_vars

(***************************************************************************)
(* Part IV. Properties                                                     *)
(***************************************************************************)

\* the puzzle piece U+1F9E9 occurs in s
HasMarker(s) == \E i \in 1..(Len(s) - 1) : SubSeq(s, i, i + 1) = "[#"

\* the entries the carry-in step of the i-th entry of the log looked at
WindowBefore(i) == SubSeq(entries, Max(1, i - 5), i - 1)

\* some theme of the i-th entry is a theme of an entry of its window
SharesTheme(i) ==
    \E j \in Max(1, i - 5)..(i - 1) :
        \E t \in Range(entries[i].parsed.theme) : t \in Range(entries[j].parsed.theme)

AllThemes == {"work-life balance", "family", "health", "relationships", "finances",
              "learning", "personal reflection"}
AllVibes == {"happy", "anxious", "exhausted", "frustrated", "sad", "calm", "driven",
             "reflective"}
AllBuckets == {"Goal", "Hobby", "Value", "Thought"}

\* C1: every response_text returned by processTranscript has between 1 and
\* 55 characters.
C1_LengthBound ==
    \A i \in 1..Len(results) :
        Len(results[i].response_text) >= 1 /\ Len(results[i].response_text) <= 55

\* C2: the first call on an empty log, after start-up or after resetState,
\* returns carry_in = false.
C2_FirstEntryNoCarryIn ==
    Len(results) >= 1 => results[1].carry_in = FALSE

C2_Witness ==
    /\ Len(results) = 1
    /\ Len(issuedIds) = 1
    /\ entries[1].parsed.theme = <<"work-life balance">>
    /\ results[1].carry_in = FALSE

\* C3: an entry that shares a theme with one of the (up to 5) entries saved
\* just before it is returned with carry_in = true, whatever the similarity.
C3_ThemeOverlapCarryIn ==
    \A i \in 2..Len(results) : SharesTheme(i) => results[i].carry_in = TRUE

C3_Witness ==
    \E i \in 2..Len(results) :
        /\ SharesTheme(i)
        /\ ~SimAbove(maxSimilarity(entries[i].embedding, WindowBefore(i)), Threshold)
        /\ results[i].carry_in = TRUE

\* the entries processed since the last reset whose labels (theme, vibe or
\* bucket, chosen by field) contain label
Mentions(field, label) ==
    {i \in 1..Len(entries) : label \in Range(entries[i].parsed[field])}

C4_CountsMatch ==
    /\ \A t \in AllThemes :
          CountOf(userProfile.theme_count, t) = Cardinality(Mentions("theme", t))
    /\ \A v \in AllVibes :
          CountOf(userProfile.vibe_count, v) = Cardinality(Mentions("vibe", v))
    /\ \A b \in AllBuckets :
          CountOf(userProfile.bucket_count, b) = Cardinality(Mentions("bucket", b))

C4_NoDecrease ==
    /\ \A t \in AllThemes :
          CountOf(userProfile.theme_count, t)' >= CountOf(userProfile.theme_count, t)
    /\ \A v \in AllVibes :
          CountOf(userProfile.vibe_count, v)' >= CountOf(userProfile.vibe_count, v)
    /\ \A b \in AllBuckets :
          CountOf(userProfile.bucket_count, b)' >= CountOf(userProfile.bucket_count, b)

\* C4: between resets each count equals the number of processed entries that
\* mention the label, and no step other than a reset decreases a count.
C4_MonotonicCounts ==
    /\ []C4_CountsMatch
    /\ [][resetState \/ C4_NoDecrease]_memVars

C4_Witness ==
    /\ Len(entries) = 3
    /\ CountOf(userProfile.theme_count, "work-life balance") = 2
    /\ CountOf(userProfile.theme_count, "family") = 1
    /\ CountOf(userProfile.vibe_count, "reflective") = 2

\* C5: the first call after a reset that wiped a non-empty history behaves
\* as a first-ever call: no carry-in, the first-entry reply without the
\* marker, and a profile counted from the empty profile.
C5_ResetLikeFirstEver ==
    (Len(entries) = 1 /\ Len(issuedIds) > 1) =>
        /\ results[1].carry_in = FALSE
        /\ ~HasMarker(results[1].response_text)
        /\ results[1].response_text
             = generateEmpathicReply(entries[1].parsed, TRUE, FALSE)
        /\ userProfile = updateUserProfile(EmptyProfile, entries[1].parsed)

C5_Witness ==
    /\ Len(entries) = 1
    /\ Len(issuedIds) = 3
    /\ entries[1].raw_text = "happy at work"
    /\ userProfile.theme_count = <<[key |-> "work-life balance", count |-> 1]>>

\* C6: the entryIds returned during one process lifetime are pairwise
\* distinct.
C6_UniqueIds ==
    \A i, j \in 1..Len(issuedIds) : i # j => issuedIds[i] # issuedIds[j]

\* C10: the reply to the first entry after a reset has no marker, the reply
\* to every later entry has it, and so the reply to a later entry differs
\* from the reply the same text got as first entry.
C10_MarkerOnlyAfterFirst ==
    \A i \in 1..Len(results) :
        /\ (i = 1 => ~HasMarker(results[i].response_text))
        /\ (i > 1 => HasMarker(results[i].response_text))
        /\ (i > 1 /\ entries[i].raw_text = entries[1].raw_text
               => results[i].response_text # results[1].response_text)

C10_Witness ==
    /\ Len(results) = 3
    /\ entries[3].raw_text = entries[1].raw_text
    /\ ~HasMarker(results[1].response_text)
    /\ HasMarker(results[3].response_text)

\* the rows stored for user u so far: those in the table and those deleted
EverStored(u) == {r \in Range(diary_entries) \cup deleted_entries : r.user_id = u}

\* the rows stored for user u whose labels in column contain label
RowsMentioning(u, column, label) ==
    {r \in EverStored(u) : label \in Range(r[column])}

\* every call made for user u has returned, and there is one
AllReturned(u) ==
    /\ \E c \in Calls : calls[c].userId = u
    /\ \A c \in Calls : calls[c].userId = u => calls[c].pc = "returned"

\* C7: calls for one user are serialized, so that once they have all
\* returned the stored profile holds the count increments of every entry
\* stored for the user (whose account has not been deleted).
C7_NoLostUpdate ==
    \A u \in auth.users :
        AllReturned(u) =>
            /\ getProfile(u) # Null
            /\ \A t \in AllThemes :
                  CountOf(getProfile(u).theme_count, t)
                      = Cardinality(RowsMentioning(u, "parsed_themes", t))
            /\ \A v \in {"happy", "anxious", "exhausted", "frustrated", "melancholic",
                         "confused", "motivated", "neutral"} :
                  CountOf(getProfile(u).vibe_count, v)
                      = Cardinality(RowsMentioning(u, "parsed_vibes", v))

\* the profile rows of user u in the columns a call writes
WrittenByCalls(u) ==
    [i \in 1..Len(ProfileRows(u)) |->
        [ProfileRows(u)[i] EXCEPT !.email = "", !.full_name = "", !.avatar_url = <<>>]]

\* C8: a call that throws leaves the profile and the entries of its user as
\* they were when it started (no other call of that user being made and
\* the user not having signed up through registerUser during the run; a
\* name or picture PUT /profile wrote meanwhile is not counted as a trace
\* of the call).
C8_FailureLeavesNoTrace ==
    \A c \in Calls :
        (/\ calls[c].pc = "threw"
         /\ \A d \in Calls \ {c} : calls[d].userId # calls[c].userId
         /\ calls[c].userId # auth.registration.userId)
        => /\ WrittenByCalls(calls[c].userId) = calls[c].before.profiles
           /\ UserEntries(calls[c].userId) = calls[c].before.entries

\* C9: a call whose similarity search was unavailable returns carry_in =
\* true exactly when a theme of its entry occurs in a recent stored entry of
\* its user.
C9_FallbackThemeOverlap ==
    \A c \in Calls :
        (calls[c].pc = "returned" /\ ~calls[c].available)
        => calls[c].carryIn = calls[c].overlapAtSearch

\* the largest similarity of the i-th entry of the log to an entry of its
\* window is above the threshold
SimilarInWindow(i) ==
    \E j \in Max(1, i - 5)..(i - 1) :
        SimAbove(cosineSimilarity(entries[i].embedding, entries[j].embedding), Threshold)

\* C11: calls started before any of them is awaited take effect one after
\* another in start order: every started call has saved its entry and
\* returned, each carry-in decision was taken on the log left by the call
\* before it, and the profile holds the increments of all of them.
C11_RunToCompletion ==
    /\ Len(entries) = Len(results)
    /\ \A i \in 1..Len(results) :
          /\ results[i].entryId = entries[i].id
          /\ results[i].carry_in = (i > 1 /\ (SharesTheme(i) \/ SimilarInWindow(i)))
    /\ C4_CountsMatch

C11_Witness ==
    /\ awaited = 0
    /\ Len(results) = 3
    /\ results[2].carry_in = TRUE
    /\ results[3].carry_in = TRUE
    /\ CountOf(userProfile.theme_count, "work-life balance") = 3

\* 1 when label is among labels, else 0
OneIf(label, labels) == IF label \in Range(labels) THEN 1 ELSE 0

\* the step appends one entry to the log, leaves the entries before it as
\* they were, and raises by one the counts of the labels of the new entry
\* and no other count
AppendsOneEntry ==
    /\ Len(entries') = Len(entries) + 1
    /\ SubSeq(entries', 1, Len(entries)) = entries
    /\ LET parsed == entries'[Len(entries')].parsed
       IN  /\ \A t \in AllThemes :
                 CountOf(userProfile'.theme_count, t)
                     = CountOf(userProfile.theme_count, t) + OneIf(t, parsed.theme)
           /\ \A v \in AllVibes :
                 CountOf(userProfile'.vibe_count, v)
                     = CountOf(userProfile.vibe_count, v) + OneIf(v, parsed.vibe)
           /\ \A b \in AllBuckets :
                 CountOf(userProfile'.bucket_count, b)
                     = CountOf(userProfile.bucket_count, b) + OneIf(b, parsed.bucket)

\* C12: a processTranscript call appends exactly one entry at the end of
\* the log and applies exactly one profile update; the entries already in
\* the log are not modified, reordered or removed; only resetState empties
\* the log.
C12_OneAppendPerCall ==
    [][\/ resetState
       \/ (entries' = entries /\ userProfile' = userProfile)
       \/ AppendsOneEntry]_memVars

C12_Witness ==
    /\ Len(entries) = 3
    /\ entries[1].raw_text = "Mom will help plan my job"
    /\ entries[2].raw_text = "Work makes me anxious"
    /\ entries[3].raw_text = ""
    /\ CountOf(userProfile.theme_count, "work-life balance") = 2
    /\ CountOf(userProfile.theme_count, "personal reflection") = 1

\* the rows of table diary_entries that are rows of user u
EntriesOf(u) == SelectSeq(diary_entries, LAMBDA r : r.user_id = u)

\* what a step of a call reads is computed from the rows of the user of the
\* call, as if the tables held no other rows: the carry-in decision of Step 4
\* from the entries of the user, the profile update of Step 5 from the
\* profile row of the user, and the entry count and with it the first-entry
\* decision of Steps 6 and 7 from the number of entries of the user
C13_ReadsOwn ==
    \A c \in Calls :
        LET u == calls[c].userId
            own == EntriesOf(u)
            row == SelectSeq(user_profiles, LAMBDA r : r.user_id = u)
        IN  /\ (calls[c].pc = "findSimilar" /\ calls'[c].pc = "getProfile")
                  => /\ calls'[c].carryIn
                            = (/\ calls'[c].available
                               /\ \E i \in 1..Len(own) :
                                     SimAtLeast(cosineSimilarity(calls[c].embedding,
                                                                 own[i].embedding),
                                                Threshold))
                     /\ calls'[c].overlapAtSearch
                            = \E i \in 1..Len(own) :
                                  /\ i > Len(own) - 10
                                  /\ Range(own[i].parsed_themes)
                                         \cap Range(calls[c].parsed.theme) # {}
            /\ (calls[c].pc = "getProfile" /\ calls'[c].pc = "updateProfile")
                  => /\ Len(row) = 1
                     /\ calls'[c].updates = computeProfileUpdate(row[1], calls[c].parsed)
            /\ (calls[c].pc = "getProfile" /\ calls'[c].pc = "createProfile")
                  => Len(row) = 0
            /\ (calls[c].pc = "getEntryCount" /\ calls'[c].pc = "createEntry")
                  => /\ calls'[c].entryCount = Len(own)
                     /\ \E randomIndex \in RandomIndexes :
                           calls'[c].responseText
                               = generateEmpathicReplySupabase(calls[c].parsed, Len(own) = 0,
                                     calls[c].carryIn, Len(own), randomIndex)

\* a step of a call leaves the profile rows and the entries of every other
\* user as they were, and with them what a call of that user is answered:
\* its profile and its entry count, and for every call of that user that
\* waits for the answer of Step 4 its similar entries and whether a recent
\* entry shares a theme
C13_Frame ==
    \A c \in Calls :
        calls'[c] # calls[c] =>
            \A v \in Users \ {calls'[c].userId} :
                /\ ProfileRows(v)' = ProfileRows(v)
                /\ UserEntries(v)' = UserEntries(v)
                /\ getProfile(v)' = getProfile(v)
                /\ getEntryCount(v)' = getEntryCount(v)
                /\ \A d \in Calls :
                      (calls[d].userId = v /\ calls[d].pc = "findSimilar")
                      => /\ calls'[d] = calls[d]
                         /\ findSimilarEntries(v, calls[d].embedding, Threshold, 5, TRUE)'
                               = findSimilarEntries(v, calls[d].embedding, Threshold, 5, TRUE)
                         /\ recentThemeOverlap(v, calls[d].parsed)'
                               = recentThemeOverlap(v, calls[d].parsed)

\* 1 to 55 characters.
C14_EmptyTextProcessed ==
    /\ Len(entries) = Len(results)
    /\ \A i \in 1..Len(entries) :
          entries[i].raw_text = "" =>
              /\ results[i].entryId = entries[i].id
              /\ Len(results[i].entryId) > Len("entry_")
              /\ Len(results[i].response_text) >= 1
              /\ Len(results[i].response_text) <= 55

C14_Witness ==
    /\ Len(entries) = 3
    /\ entries[1].raw_text = ""
    /\ entries[2].raw_text = "Mom will help plan my job"
    /\ entries[3].raw_text = ""
    /\ ~HasMarker(results[1].response_text)
    /\ HasMarker(results[3].response_text)

\* the largest similarity of the i-th entry of the log to an entry of its
\* window is at least hundredths / 100
SimilarityReaches(i, hundredths) ==
    \E j \in Max(1, i - 5)..(i - 1) :
        SimAtLeast(cosineSimilarity(entries[i].embedding, entries[j].embedding), hundredths)

\* ... is above hundredths / 100
SimilarityExceeds(i, hundredths) ==
    \E j \in Max(1, i - 5)..(i - 1) :
        SimAbove(cosineSimilarity(entries[i].embedding, entries[j].embedding), hundredths)

\* C16 as stated: an entry that shares no theme with its window and whose
\* largest similarity to an entry of the window is above 0.7 is returned
\* with carry_in = true.
C16_ThresholdSeventy ==
    \A i \in 2..Len(results) :
        (~SharesTheme(i) /\ SimilarityExceeds(i, 70)) => results[i].carry_in = TRUE

\* C16 amended: the threshold of carry-in by similarity is 0.86 and not 0.7:
\* an entry that shares no theme with its window and whose largest
\* similarity to an entry of the window is below 0.86, above 0.7 or not, is
\* returned with carry_in = false.
C16_ThresholdEightySix ==
    \A i \in 2..Len(results) :
        (~SharesTheme(i) /\ ~SimilarityReaches(i, 86)) => results[i].carry_in = FALSE

\* "mom 927947" is processed with "work 3508915" in its window: no theme is
\* shared, the similarity lies between 0.7 and 0.86, and carry_in is false
C16_Witness ==
    \E i \in 2..Len(results) :
        /\ entries[i].raw_text = "mom 927947"
        /\ \E j \in Max(1, i - 5)..(i - 1) : entries[j].raw_text = "work 3508915"
        /\ ~SharesTheme(i)
        /\ SimilarityExceeds(i, 70)
        /\ ~SimilarityReaches(i, 86)
        /\ results[i].carry_in = FALSE

\* C17: the carry-in decision of an entry looks at the 5 entries saved just
\* before it and at no older one, whether for themes or for similarity,
\* while the log itself keeps every entry.
C17_WindowOfFive ==
    /\ Len(entries) = Len(results)
    /\ \A i \in 1..Len(results) :
          /\ (SharesTheme(i) \/ SimilarityExceeds(i, Threshold)) => results[i].carry_in = TRUE
          /\ (~SharesTheme(i) /\ ~SimilarityExceeds(i, Threshold)) => results[i].carry_in = FALSE

\* the 7th entry repeats the text of the 1st, five entries on another theme
\* lie between them, and the 7th is returned without carry-in
C17_Witness ==
    /\ Len(entries) = 7
    /\ entries[1].raw_text = "happy at work"
    /\ \A j \in 2..6 : entries[j].raw_text = "I am exhausted"
    /\ entries[7].raw_text = "happy at work"
    /\ results[7].carry_in = FALSE
    /\ results[6].carry_in = TRUE

\* top_themes has at most k elements, no element twice, and only themes
\* counted at least once in theme_count
TopThemesWithin(profile, k) ==
    /\ Len(profile.top_themes) <= k
    /\ \A i, j \in 1..Len(profile.top_themes) :
          i # j => profile.top_themes[i] # profile.top_themes[j]
    /\ \A i \in 1..Len(profile.top_themes) :
          CountOf(profile.theme_count, profile.top_themes[i]) >= 1

\* C18: top_themes has at most 4 elements in the in-memory profile and at
\* most 3 in a stored profile row, without duplicates, each of them a key
\* of theme_count with a count of at least 1.
C18_TopThemesBounded ==
    /\ TopThemesWithin(userProfile, 4)
    /\ \A r \in 1..Len(user_profiles) : TopThemesWithin(user_profiles[r], 3)

\* both profiles count five themes
C18_Witness ==
    /\ Len(userProfile.theme_count) = 5
    /\ Len(userProfile.top_themes) = 4
    /\ Len(user_profiles) = 1
    /\ Len(user_profiles[1].theme_count) = 5
    /\ Len(user_profiles[1].top_themes) = 3

\* the place of key among the keys of counter, in insertion order
InsertedAt(counter, key) == CHOOSE p \in 1..Len(counter) : counter[p].key = key

\* key a comes before key b in the order of top_themes: a larger count
\* first, and for equal counts the key inserted first
RanksBefore(counter, a, b) ==
    \/ CountOf(counter, a) > CountOf(counter, b)
    \/ /\ CountOf(counter, a) = CountOf(counter, b)
       /\ InsertedAt(counter, a) < InsertedAt(counter, b)

\* C19: top_themes lists themes by non-increasing count, the theme inserted
\* first coming first among equal counts, and no theme left out of
\* top_themes ranks before one that is in it.
C19_TopThemesOrdered ==
    LET top == userProfile.top_themes
        counter == userProfile.theme_count
    IN  /\ \A i, j \in 1..Len(top) : i < j => RanksBefore(counter, top[i], top[j])
        /\ \A k \in Keys(counter) \ Range(top) :
              \A i \in 1..Len(top) : RanksBefore(counter, top[i], k)

C19_Witness ==
    /\ userProfile.theme_count =
           << [key |-> "health", count |-> 1], [key |-> "relationships", count |-> 1],
              [key |-> "finances", count |-> 1], [key |-> "work-life balance", count |-> 2],
              [key |-> "family", count |-> 1] >>
    /\ userProfile.top_themes = <<"work-life balance", "health", "relationships", "finances">>

\* C20: dominant_vibe is a vibe of maximal count in vibe_count, and it is
\* the empty string exactly when no entry has been processed since the
\* last reset.
C20_DominantVibe ==
    /\ (userProfile.dominant_vibe = "") = (Len(entries) = 0)
    /\ userProfile.dominant_vibe # "" =>
          /\ userProfile.dominant_vibe \in Keys(userProfile.vibe_count)
          /\ \A v \in Keys(userProfile.vibe_count) :
                CountOf(userProfile.vibe_count, v)
                    <= CountOf(userProfile.vibe_count, userProfile.dominant_vibe)

\* the vibe counted twice came second into vibe_count, so the sort by count
\* decides dominant_vibe
C20_Witness ==
    /\ Len(entries) = 3
    /\ userProfile.vibe_count =
           << [key |-> "anxious", count |-> 1], [key |-> "reflective", count |-> 2] >>
    /\ entries[1].parsed.vibe = <<"anxious">>
    /\ userProfile.dominant_vibe = "reflective"

\* the elements of the sequences of seqs, in order
RECURSIVE Flatten(_)
Flatten(seqs) == IF seqs = <<>> THEN <<>> ELSE Head(seqs) \o Flatten(Tail(seqs))

FirstAt(flat, x) == CHOOSE i \in 1..Len(flat) : flat[i] = x /\ \A j \in 1..(i - 1) : flat[j] # x

\* pool holds every element of flat once, in the order of first occurrence
FirstSeenOrder(pool, flat) ==
    /\ \A i, j \in 1..Len(pool) : i # j => pool[i] # pool[j]
    /\ Range(pool) = Range(flat)
    /\ \A i, j \in 1..Len(pool) : i < j => FirstAt(flat, pool[i]) < FirstAt(flat, pool[j])

IsPrefix(s, t) == Len(s) <= Len(t) /\ SubSeq(t, 1, Len(s)) = s

\* trait_pool of the in-memory profile against the log
C21_MemoryPool ==
    FirstSeenOrder(userProfile.trait_pool,
                   Flatten([i \in 1..Len(entries) |-> entries[i].parsed.persona_trait]))

\* trait_pool of the stored profile of u1 against the stored entries of u1,
\* once every call has returned
C21_StoredPool ==
    AllReturned("u1") =>
        /\ getProfile("u1") # Null
        /\ FirstSeenOrder(getProfile("u1").trait_pool,
               Flatten([i \in 1..Len(UserEntries("u1")) |->
                           UserEntries("u1")[i].parsed_persona_traits]))

\* an update keeps the elements of trait_pool where they are
C21_PoolGrows ==
    /\ resetState \/ IsPrefix(userProfile.trait_pool, userProfile.trait_pool')
    /\ (getProfile("u1") # Null /\ getProfile("u1")' # Null)
          => IsPrefix(getProfile("u1").trait_pool, getProfile("u1").trait_pool')

\* C21: trait_pool never contains a duplicate, equals as a set the union of
\* the persona traits of all entries processed since the last reset, keeps
\* first-seen order, and a later update never removes or reorders an
\* element already in it; in the in-memory pipeline and in the Supabase
\* pipeline.
C21_TraitPool ==
    [](C21_MemoryPool /\ C21_StoredPool) /\ [][C21_PoolGrows]_vars

\* C21, the in-memory pipeline alone
C21_TraitPoolInMemory ==
    []C21_MemoryPool
    /\ [][resetState \/ IsPrefix(userProfile.trait_pool, userProfile.trait_pool')]_vars

\* the replies generateEmpathicReply keeps for a first entry
FirstReplies ==
    {firstEntryResponses[v] : v \in DOMAIN firstEntryResponses}
        \cup {"Thank you for sharing this with me."}

\* the entries of the user of call c stored before the entry of call c
StoredBefore(c) ==
    SelectSeq(UserEntries(calls[c].userId), LAMBDA r : r.id < calls[c].entryId)

\* C22: both pipelines treat an entry as the first entry exactly when no
\* entry of its user was stored before it: the i-th in-memory result since
\* the last reset has a first-entry reply exactly when i = 1, and a returned
\* Supabase call took its entry for the first exactly when no entry of its
\* user precedes the entry it stored.
C22_FirstEntry ==
    /\ \A i \in 1..Len(results) : (results[i].response_text \in FirstReplies) <=> (i = 1)
    /\ \A c \in Calls :
          calls[c].pc = "returned" =>
              ((calls[c].entryCount = 0) <=> (Len(StoredBefore(c)) = 0))

\* C23: generateEmpathicReply of the Supabase pipeline returns between 1 and
\* 55 characters; a chosen reply (prefix included) longer than 55 characters
\* comes back as its first 52 characters followed by "...", and any other
\* comes back as it is.
C23_ReplyWithinLimit ==
    reply.returned =>
        LET chosen == chosenReply(reply.parsed, reply.isFirstEntry, reply.carryIn,
                                  reply.entryCount, reply.randomIndex)
        IN  /\ Len(reply.response) >= 1
            /\ Len(reply.response) <= 55
            /\ Len(chosen) > 55 => reply.response = SubSeq(chosen, 1, 52) \o "..."
            /\ Len(chosen) <= 55 => reply.response = chosen

\* the longest reply there is: the puzzle piece before a longest entry of
\* the tables, 41 characters
C23_Witness ==
    /\ reply.returned
    /\ reply.entryCount = 100
    /\ reply.carryIn
    /\ reply.response = "[# {0 Building on what you shared earlier"
    /\ Len(reply.response) = 41

\* C24: the reply of a Supabase call starts with the puzzle piece exactly
\* when the entry it stored is the 100th or a later entry of its user, that
\* is, when at least 99 entries of the user were stored before it.
C24_PuzzleFromHundredth ==
    \A c \in Calls :
        calls[c].pc = "returned" =>
            ((SubSeq(calls[c].responseText, 1, 2) = "[#") <=> (Len(StoredBefore(c)) >= 99))

RECURSIVE SumCounts(_)
SumCounts(counter) ==
    IF counter = <<>> THEN 0 ELSE Head(counter).count + SumCounts(Tail(counter))

\* the number of updates a profile has had: every entry has one bucket
ProfileUpdates(profile) == SumCounts(profile.bucket_count)

\* what generateMockEntries(n) has done when it returns
MockReturns(n) ==
    /\ Len(entries') = Len(entries) + n
    /\ SubSeq(entries', 1, Len(entries)) = entries
    /\ ProfileUpdates(userProfile') = ProfileUpdates(userProfile) + n
    /\ n = 0 => (entries' = entries /\ userProfile' = userProfile)

\* generateMockEntries(0) on the current state: the loop body never runs
MockNothing ==
    mockLoop([entries |-> entries, userProfile |-> userProfile, results |-> <<>>],
             0, 0, now, [jumpAt |-> 1, by |-> 0], <<>>)
        = [entries |-> entries, userProfile |-> userProfile, results |-> <<>>]

\* C25: generateMockEntries(n) has appended exactly n entries and applied
\* exactly n profile updates when it returns, and nothing for n = 0; a
\* processTranscript call made after it is the (n+1)-th entry: the profile
\* has had one update per entry of the log, and only the first entry of the
\* log got a first-entry reply.  A step that issues n > 1 ids is a call of
\* generateMockEntries(n): a processTranscript call issues one.
C25_MockEntriesComplete ==
    /\ [](/\ ProfileUpdates(userProfile) = Len(entries)
          /\ Len(results) = Len(entries)
          /\ \A i \in 2..Len(results) : results[i].response_text \notin FirstReplies
          /\ MockNothing)
    /\ [][\A n \in MockCounts :
              (n > 1 /\ Len(issuedIds') = Len(issuedIds) + n) => MockReturns(n)]_vars

\* generateMockEntries(12) and then a processTranscript call, the 13th entry
C25_Witness ==
    /\ Len(entries) = 13
    /\ entries[1].raw_text = mockTranscripts[1] \o " (Variation 1)"
    /\ entries[12].raw_text = mockTranscripts[2] \o " (Variation 2)"
    /\ entries[13].raw_text = "happy at work"
    /\ ProfileUpdates(userProfile) = 13
    /\ results[13].response_text \notin FirstReplies

\* the text of the i-th entry of the log is the text of one of the 5 entries
\* before it
RepeatsRecent(i) ==
    \E j \in Max(1, i - 5)..(i - 1) : entries[j].raw_text = entries[i].raw_text

\* C26: carry-in is decided against the log as it was before the entry was
\* appended, never against the entry itself: the only entry of an empty log
\* is returned without carry-in, an entry that repeats the text of one of
\* the 5 entries before it is returned with carry-in, and an entry returned
\* with carry-in shares a theme with, or is similar to, one of the 5 entries
\* before it.
C26_CarryInAgainstEarlierLog ==
    /\ Len(results) = Len(entries)
    /\ \A i \in 1..Len(results) :
          /\ i = 1 => results[i].carry_in = FALSE
          /\ RepeatsRecent(i) => results[i].carry_in = TRUE
          /\ results[i].carry_in = TRUE => (SharesTheme(i) \/ SimilarInWindow(i))

\* a text as the only entry, without carry-in; another text, without
\* carry-in; the first text again, with carry-in
C26_Witness ==
    /\ Len(entries) = 3
    /\ entries[1].raw_text = "I am exhausted" /\ results[1].carry_in = FALSE
    /\ entries[2].raw_text = "happy at work" /\ results[2].carry_in = FALSE
    /\ entries[3].raw_text = "I am exhausted" /\ results[3].carry_in = TRUE

\* call c is past the creation of the profile of its user
HasProfileStep(c) == calls[c].pc \in {"updateProfile", "getEntryCount", "createEntry", "returned"}

\* the profile rows of a user go away only with the account of the user;
\* a row that comes is the one row of a user who had none, and the row that
\* comes with a step of a call is the empty profile; a call that was
\* answered that its user has no profile goes on only with that row created
C27_CreatedEmpty ==
    /\ \A u \in Users :
          /\ Len(ProfileRows(u)') < Len(ProfileRows(u)) => u \in auth.users \ auth'.users
          /\ Len(ProfileRows(u)') > Len(ProfileRows(u))
                => /\ Len(ProfileRows(u)) = 0
                   /\ Len(ProfileRows(u)') = 1
                   /\ Len(user_profiles') = Len(user_profiles) + 1
                   /\ calls' # calls
                         => ProfileRows(u)' = <<newProfileRow(u, "user@example.com", "")>>
    /\ \A c \in Calls :
          (calls[c].pc = "createProfile" /\ calls'[c].pc = "updateProfile")
              => /\ Len(ProfileRows(calls[c].userId)) = 0
                 /\ ProfileRows(calls[c].userId)'
                       = <<newProfileRow(calls[c].userId, "user@example.com", "")>>

\* C27: in the Supabase pipeline every user has at most one profile row in
\* every reachable state, a call that has got past the profile step finds
\* exactly one row of its user while the account of the user exists, and a
\* row is only ever created for a user who had none, and created empty by
\* the first call of the user that gets to create it, also when two first
\* calls of the user overlap or the user signs up meanwhile.
C27_OneProfilePerUser ==
    /\ [](\A u \in Users :
            /\ Len(ProfileRows(u)) <= 1
            /\ (u \in auth.users /\ \E c \in Calls : calls[c].userId = u /\ HasProfileStep(c))
                  => Len(ProfileRows(u)) = 1)
    /\ [][C27_CreatedEmpty]_supaVars

\* two first calls of one user overlapped: both found no profile, one
\* created it, and the other was refused by UNIQUE(user_id) and threw
C27_Witness ==
    /\ calls[1].pc = "returned"
    /\ calls[2].pc = "threw"
    /\ calls[1].userId = calls[2].userId
    /\ calls[1].before.profiles = <<>> /\ calls[2].before.profiles = <<>>
    /\ failures = 0
    /\ Len(ProfileRows(calls[1].userId)) = 1

ZeroMagnitude(v) == \A i \in 1..Len(v) : v[i] = 0

\* C28: cosineSimilarity returns a number for any two vectors, and the
\* number 0 when they differ in length or when one of them has zero
\* magnitude, two empty vectors included.
C28_CosineTotal ==
    compared.returned =>
        /\ compared.value.magnitudeA > 0 /\ compared.value.magnitudeB > 0
        /\ (Len(compared.a) # Len(compared.b)
             \/ ZeroMagnitude(compared.a) \/ ZeroMagnitude(compared.b))
              => /\ SimLeq(compared.value, Literal(0))
                 /\ SimLeq(Literal(0), compared.value)
        /\ (Len(compared.a) = Len(compared.b)
             /\ ~ZeroMagnitude(compared.a) /\ ~ZeroMagnitude(compared.b))
              => /\ compared.value.dot = SumOver(compared.a, compared.b, 1)
                 /\ compared.value.magnitudeA = SumOver(compared.a, compared.a, 1)
                 /\ compared.value.magnitudeB = SumOver(compared.b, compared.b, 1)

\* two empty vectors compared
C28_Witness ==
    /\ compared.returned
    /\ compared.a = <<>> /\ compared.b = <<>>
    /\ compared.value.dot = 0

\* C30: the reply of a non-first entry of the in-memory pipeline does not
\* depend on carry_in: two entries after the first with the same parsed
\* fields got the same reply whatever their carry_in, the reply of an entry
\* after the first is what generateEmpathicReply gives for its parsed fields
\* with carryIn true and with carryIn false, and no experienced-user reply
\* and theme suffix have 55 characters or fewer between them.
C30_ReplyIgnoresCarryIn ==
    /\ \A i, j \in 2..Len(results) :
          entries[i].parsed = entries[j].parsed
              => results[i].response_text = results[j].response_text
    /\ \A i \in 2..Len(results) :
          /\ results[i].response_text = generateEmpathicReply(entries[i].parsed, FALSE, TRUE)
          /\ results[i].response_text = generateEmpathicReply(entries[i].parsed, FALSE, FALSE)
    /\ \A v \in DOMAIN experiencedResponses, t \in DOMAIN carryInSuffixes :
          Len(experiencedResponses[v]) + Len(carryInSuffixes[t]) > 55

\* the same text twice after a first entry on another theme: the second
\* entry has a theme with a suffix and no carry-in, the third has carry-in,
\* and both got the same reply
C30_Witness ==
    /\ Len(entries) = 3
    /\ entries[2].parsed = entries[3].parsed
    /\ entries[2].parsed.theme[1] \in DOMAIN carryInSuffixes
    /\ results[2].carry_in = FALSE
    /\ results[3].carry_in = TRUE
    /\ results[2].response_text = results[3].response_text

\* C29: every stopRecording call is followed by exactly one terminal callback of
\* its own: none while its processAudioBlob timer runs, and after that exactly
\* one, which is onError or onTranscriptReady with a transcript that is not blank
C29_OneTerminalCallback ==
    \A stop \in 1..recorder.stops :
        LET own == {cb \in BagToSet(callbackLog) : cb.from = stop}
        IN  IF stop \in timers
            THEN own = {}
            ELSE /\ Cardinality(own) = 1
                 /\ \A cb \in own :
                       /\ CopiesIn(cb, callbackLog) = 1
                       /\ cb.kind \in {"onTranscriptReady", "onError"}
                       /\ cb.kind = "onTranscriptReady" => trim(cb.text) # ""

\* C29: isProcessing is true only while some call of processTranscript waits
\* for the timer of processAudioBlob
C29_ProcessingOnlyWhileWaiting == recorder.isProcessing => timers # {}

\* C29: every stopRecording call is followed by exactly one terminal callback
\* (onTranscriptReady with a non-blank transcript, or onError), and isProcessing,
\* once true, becomes false again, whatever startRecording calls and recognition
\* events come in between
C29_StopRecordingTerminates ==
    /\ [](C29_OneTerminalCallback /\ C29_ProcessingOnlyWhileWaiting)
    /\ recorder.isProcessing ~> ~recorder.isProcessing
    /\ \A stop \in 1..MaxStops : (stop \in timers) ~> (stop \notin timers)

\* a stopRecording call waited for processAudioBlob while a new recording was
\* started, and has made its one callback with the placeholder text; another
\* call reported that no speech was detected
C29_Witness ==
    /\ timers = {}
    /\ ~recorder.isProcessing
    /\ recorder.isRecording
    /\ \E cb \in BagToSet(callbackLog) :
          /\ cb.kind = "onTranscriptReady"
          /\ cb.from > 0
          /\ cb.text = AudioPlaceholder
    /\ \E cb \in BagToSet(callbackLog) :
          /\ cb.kind = "onError"
          /\ cb.from > 0
          /\ cb.text = NoSpeechDetected

====
